---- MODULE Spec2Model ----
(***************************************************************************)
(* A model of python-imdb's storage substrate: the chunked compressed      *)
(* container (imdb/chunkedfile.py) and the list parsers that archive a     *)
(* list in it and look records up (imdb/parsers.py).  Byte strings are     *)
(* sequences of byte values; every method of ChunkedFile is an operator    *)
(* from a handle (and the archive) to the handle after the call, its       *)
(* return value and the exception it raised ("" when it returned           *)
(* normally).                                                              *)
(***************************************************************************)
EXTENDS Integers, Sequences, FiniteSets, TLC

\* ------------------------------------------------------------------ bytes

\* '\n', the line terminator ChunkedFile.next looks for
NL ==
    10
\* '\r', which str.splitlines also treats as a line boundary
CR ==
    13
\* the ordinary bytes the machines store ('a' and 'b')
DataBytes ==
    <<97, 98>>
CHA ==
    DataBytes[1]
CHB ==
    DataBytes[2]
\* ',' separates the offset from the bookmark in a chunk name
COMMA ==
    44
\* '=' pads a base64 group
PAD ==
    61
\* width of the zero-padded hexadecimal offset in a chunk name ('%08x')
HexWidth ==
    8
\* I/O mode names
ModeR ==
    "r"
ModeW ==
    "w"
ModeA ==
    "a"

\* Python's None / a present value, for an optional field
None ==
    <<>>
Some(x) ==
    <<x>>

\* s[:n] and s[n:] for n >= 0
Take(s, n) ==
    SubSeq(s, 1, IF n < Len(s) THEN n ELSE Len(s))
Drop(s, n) ==
    SubSeq(s, n + 1, Len(s))

\* byte-wise lexicographic order of Python 2 str: a < b
RECURSIVE StrLess(_, _)
StrLess(a, b) ==
    IF b = <<>> THEN FALSE
    ELSE IF a = <<>> THEN TRUE
    ELSE IF a[1] # b[1] THEN a[1] < b[1]
    ELSE StrLess(Tail(a), Tail(b))
StrLeq(a, b) ==
    a = b \/ StrLess(a, b)

\* truth value of an optional byte string: None and '' are false
Truthy(opt) ==
    opt # None /\ opt[1] # <<>>

RECURSIVE Concat(_)
Concat(ss) ==
    IF ss = <<>> THEN <<>> ELSE ss[1] \o Concat(Tail(ss))

\* ------------------------------------------------------- chunk names

\* one lowercase hexadecimal digit, as '%x' prints it
HexChar(d) ==
    IF d < 10 THEN 48 + d ELSE 97 + (d - 10)
RECURSIVE HexDigits(_)
HexDigits(n) ==
    IF n < 16 THEN <<HexChar(n)>>
    ELSE HexDigits(n \div 16) \o <<HexChar(n % 16)>>
RECURSIVE ZeroPad(_, _)
ZeroPad(s, w) ==
    IF Len(s) >= w THEN s ELSE ZeroPad(<<48>> \o s, w)
\* '%08x' % n
FormatHex(n) ==
    ZeroPad(HexDigits(n), HexWidth)
\* the value of one hexadecimal digit, as int(s, 16) reads it
HexVal(c) ==
    IF c >= 48 /\ c <= 57 THEN c - 48
    ELSE IF c >= 97 /\ c <= 102 THEN c - 87
    ELSE c - 55
RECURSIVE ParseHexAcc(_, _)
ParseHexAcc(s, acc) ==
    IF s = <<>> THEN acc ELSE ParseHexAcc(Tail(s), acc * 16 + HexVal(s[1]))
\* int(s, 16)
ParseHex(s) ==
    ParseHexAcc(s, 0)

\* the urlsafe base64 alphabet
B64Char(v) ==
    IF v < 26 THEN 65 + v
    ELSE IF v < 52 THEN 97 + (v - 26)
    ELSE IF v < 62 THEN 48 + (v - 52)
    ELSE IF v = 62 THEN 45
    ELSE 95
B64Val(c) ==
    IF c >= 65 /\ c <= 90 THEN c - 65
    ELSE IF c >= 97 /\ c <= 122 THEN c - 71
    ELSE IF c >= 48 /\ c <= 57 THEN c + 4
    ELSE IF c = 45 THEN 62
    ELSE 63
\* base64.urlsafe_b64encode
RECURSIVE B64Encode(_)
B64Encode(s) ==
    IF s = <<>> THEN <<>>
    ELSE IF Len(s) = 1 THEN
        <<B64Char(s[1] \div 4), B64Char((s[1] % 4) * 16), PAD, PAD>>
    ELSE IF Len(s) = 2 THEN
        <<B64Char(s[1] \div 4), B64Char((s[1] % 4) * 16 + s[2] \div 16),
          B64Char((s[2] % 16) * 4), PAD>>
    ELSE
        <<B64Char(s[1] \div 4), B64Char((s[1] % 4) * 16 + s[2] \div 16),
          B64Char((s[2] % 16) * 4 + s[3] \div 64), B64Char(s[3] % 64)>>
        \o B64Encode(Drop(s, 3))
\* base64.urlsafe_b64decode
RECURSIVE B64Decode(_)
B64Decode(s) ==
    IF Len(s) < 4 THEN <<>>
    ELSE LET v1 == B64Val(s[1])
             v2 == B64Val(s[2])
             v3 == B64Val(s[3])
             v4 == B64Val(s[4])
         IN  IF s[3] = PAD THEN <<v1 * 4 + v2 \div 16>>
             ELSE IF s[4] = PAD THEN
                 <<v1 * 4 + v2 \div 16, (v2 % 16) * 16 + v3 \div 4>>
             ELSE <<v1 * 4 + v2 \div 16, (v2 % 16) * 16 + v3 \div 4,
                    (v3 % 4) * 64 + v4>> \o B64Decode(Drop(s, 4))

\* A chunk's entry name: the sub-stream's prefix ('<sub>/c.', kept as the
\* sub-stream name), then the text after it.
\* '%s%08x' % (prefix, chunkpos), plus ',' + base64(bookmark) when tagged
ChunkName(sub, chunkpos, chunkbookmark) ==
    [sub |-> sub,
     tail |-> FormatHex(chunkpos)
              \o (IF chunkbookmark = None THEN <<>>
                  ELSE <<COMMA>> \o B64Encode(chunkbookmark[1]))]

\* name[offset:].split(','): the fields of the text after the prefix
RECURSIVE SplitOn(_, _, _)
SplitOn(s, sep, cur) ==
    IF s = <<>> THEN <<cur>>
    ELSE IF s[1] = sep THEN <<cur>> \o SplitOn(Tail(s), sep, <<>>)
    ELSE SplitOn(Tail(s), sep, Append(cur, s[1]))

\* ChunkInfo(name, pos, bookmark) parsed from an entry name
ParseChunkName(name) ==
    LET nameinfo == SplitOn(name.tail, COMMA, <<>>)
    IN  [name |-> name,
         pos |-> ParseHex(nameinfo[1]),
         bookmark |-> IF Len(nameinfo) > 1 THEN Some(B64Decode(nameinfo[2]))
                      ELSE None]

\* sorted(chunks, key=lambda chunk: chunk.pos): a stable insertion sort
RECURSIVE InsertByPos(_, _)
InsertByPos(sorted, c) ==
    IF sorted = <<>> THEN <<c>>
    ELSE IF sorted[Len(sorted)].pos <= c.pos THEN Append(sorted, c)
    ELSE Append(InsertByPos(SubSeq(sorted, 1, Len(sorted) - 1), c),
                sorted[Len(sorted)])
RECURSIVE SortByPos(_)
SortByPos(cs) ==
    IF cs = <<>> THEN <<>>
    ELSE InsertByPos(SortByPos(SubSeq(cs, 1, Len(cs) - 1)), cs[Len(cs)])

\* ------------------------------------------------------------ archive
\* The zip archive is the sequence of its entries [name, data] in the order
\* they were written.

\* ZipFile.namelist() filtered to the sub-stream's prefix, parsed and sorted
RECURSIVE ChunksOfEntries(_, _)
ChunksOfEntries(z, sub) ==
    IF z = <<>> THEN <<>>
    ELSE (IF z[1].name.sub = sub THEN <<ParseChunkName(z[1].name)>> ELSE <<>>)
         \o ChunksOfEntries(Tail(z), sub)
Chunks(z, sub) ==
    SortByPos(ChunksOfEntries(z, sub))

\* ZipFile.read(name) / getinfo(name): the entry last written under the name
RECURSIVE ZipRead(_, _)
ZipRead(z, name) ==
    IF z = <<>> THEN <<>>
    ELSE IF z[Len(z)].name = name THEN z[Len(z)].data
    ELSE ZipRead(SubSeq(z, 1, Len(z) - 1), name)

\* ------------------------------------------------------------ handles
\* A ChunkedFile object.  chunkidx is Python's 0-based index (-1 before the
\* first chunk); chunks[i + 1] is Python's chunks[i].

\* ChunkedFile.__init__ on a zip archive: the handle and the archive (mode
\* 'w' truncates the archive)
OpenHandle(z, sub, mode, chunksize, autoflush) ==
    LET zz == IF mode = ModeW THEN <<>> ELSE z
        chunks == Chunks(zz, sub)
        chunkidx == IF mode = ModeR THEN -1 ELSE Len(chunks) - 1
    IN  [h |-> [sub |-> sub, mode |-> mode, chunksize |-> chunksize,
                autoflush |-> autoflush, is_gzip |-> FALSE, gz |-> <<>>,
                chunks |-> chunks,
                eof |-> (mode # ModeR),
                chunkidx |-> chunkidx,
                pos |-> IF chunkidx >= 0
                        THEN chunks[chunkidx + 1].pos
                             + Len(ZipRead(zz, chunks[chunkidx + 1].name))
                        ELSE 0,
                nextbuf |-> <<>>, readbuf |-> <<>>, writebuf |-> <<>>,
                last_bookmark |-> None],
         zip |-> zz]

\* ChunkedFile(filename, mode='r', chunksize) on a file that is no zip
\* archive but a gzip file of the bytes data: BadZipfile, then GzipFile
GzipHandle(data, chunksize) ==
    [sub |-> "", mode |-> ModeR, chunksize |-> chunksize, autoflush |-> TRUE,
     is_gzip |-> TRUE, gz |-> data, chunks |-> <<>>, eof |-> FALSE,
     chunkidx |-> -1, pos |-> 0, nextbuf |-> <<>>, readbuf |-> <<>>,
     writebuf |-> <<>>, last_bookmark |-> None]

\* ChunkedFile._next_chunk
NextChunk(h, z) ==
    IF h.is_gzip THEN
        LET chunk == Take(h.gz, h.chunksize)
        IN  IF chunk = <<>>
            THEN [h |-> [h EXCEPT !.eof = TRUE], exc |-> "EOFError"]
            ELSE [h |-> [h EXCEPT !.readbuf = @ \o chunk,
                                  !.gz = Drop(@, h.chunksize)],
                  exc |-> ""]
    ELSE
        LET chunkidx == h.chunkidx + 1
        IN  IF chunkidx >= Len(h.chunks)
            THEN [h |-> [h EXCEPT !.chunkidx = chunkidx, !.eof = TRUE],
                  exc |-> "EOFError"]
            ELSE [h |-> [h EXCEPT !.chunkidx = chunkidx,
                                  !.readbuf = @ \o ZipRead(z, h.chunks[chunkidx + 1].name)],
                  exc |-> ""]

\* mutant of ChunkPos: the buffered bytes are not subtracted
ChunkPosEnd(h) ==
    h.pos

\* the logical offset of the chunk being emitted: self.pos-len(self.writebuf)
ChunkPos(h) ==
    h.pos - Len(h.writebuf)

\* whether the chunk being emitted carries the bookmark
ChunkTagged(h, bookmark) ==
    Truthy(bookmark) /\ Len(h.writebuf) <= h.chunksize

\* the loop of ChunkedFile._flush
RECURSIVE FlushLoop(_, _, _, _)
FlushLoop(h, z, auto, bookmark) ==
    IF h.writebuf # <<>> /\ (Len(h.writebuf) >= h.chunksize \/ ~auto) THEN
        LET chunkidx == h.chunkidx + 1
            chunkpos == ChunkPos(h)
            chunkbookmark == IF ChunkTagged(h, bookmark) THEN bookmark ELSE None
            chunkname == ChunkName(h.sub, chunkpos, chunkbookmark)
        IN  IF chunkidx # Len(h.chunks)
            THEN [h |-> [h EXCEPT !.chunkidx = chunkidx], zip |-> z,
                  exc |-> "AssertionError"]
            ELSE IF h.mode = ModeR
            THEN [h |-> [h EXCEPT !.chunkidx = chunkidx], zip |-> z,
                  exc |-> "RuntimeError"]
            ELSE FlushLoop(
                    [h EXCEPT !.chunkidx = chunkidx,
                              !.writebuf = Drop(@, h.chunksize),
                              !.chunks = Append(@, [name |-> chunkname,
                                                    pos |-> chunkpos,
                                                    bookmark |-> chunkbookmark])],
                    Append(z, [name |-> chunkname,
                               data |-> Take(h.writebuf, h.chunksize)]),
                    auto, bookmark)
    ELSE [h |-> h, zip |-> z, exc |-> ""]

\* ChunkedFile._flush(auto, bookmark)
FlushOp(h, z, auto, bookmark) ==
    IF auto /\ ~h.autoflush THEN [h |-> h, zip |-> z, exc |-> ""]
    ELSE FlushLoop(h, z, auto, bookmark)

\* ChunkedFile.flush()
Flush(h, z) ==
    FlushOp(h, z, FALSE, None)

\* ChunkedFile.close(): flush, then close the archive
CloseOp(h, z) ==
    Flush(h, z)

\* mutant of BookmarkAllowed: the assertion is gone
BookmarkAlwaysAllowed(h, bookmark) ==
    TRUE

\* the assertion of ChunkedFile.bookmark: keys do not decrease
BookmarkAllowed(h, bookmark) ==
    IF Truthy(h.last_bookmark) THEN StrLeq(h.last_bookmark[1], bookmark)
    ELSE TRUE

\* a bookmark() that emits only a buffer of a whole chunk
BookmarkThresholdFull(h) ==
    h.chunksize
\* the buffer length from which bookmark() emits: chunksize-chunksize/8
BookmarkThreshold(h) ==
    h.chunksize - (h.chunksize \div 8)

\* ChunkedFile.bookmark(bookmark)
BookmarkOp(h, z, bookmark) ==
    IF ~BookmarkAllowed(h, bookmark)
    THEN [h |-> h, zip |-> z, exc |-> "AssertionError"]
    ELSE LET h1 == [h EXCEPT !.last_bookmark = Some(bookmark)]
         IN  IF Len(h1.writebuf) >= BookmarkThreshold(h1)
             THEN FlushOp(h1, z, FALSE, Some(bookmark))
             ELSE [h |-> h1, zip |-> z, exc |-> ""]

\* ChunkedFile.write(data)
WriteOp(h, z, data) ==
    IF h.is_gzip THEN [h |-> h, zip |-> z, exc |-> "AssertionError"]
    ELSE FlushOp([h EXCEPT !.writebuf = @ \o data, !.pos = @ + Len(data)],
                 z, TRUE, None)

\* the loop of ChunkedFile.read: fill the read buffer until size bytes are
\* there (all of the stream for size < 0) or the stream ends
RECURSIVE ReadFill(_, _, _)
ReadFill(h, z, size) ==
    IF size < 0 \/ Len(h.readbuf) < size THEN
        LET r == NextChunk(h, z)
        IN  IF r.exc # "" THEN r.h ELSE ReadFill(r.h, z, size)
    ELSE h

\* mutant of ReadOp: the bytes returned stay in the read buffer
ReadOpNoAdvance(h, z, size) ==
    LET h1 == ReadFill(h, z, size)
        ret == IF size > 0 THEN Take(h1.readbuf, size)
               ELSE IF size < 0 THEN h1.readbuf
               ELSE <<>>
    IN  [h |-> [h1 EXCEPT !.pos = @ + Len(ret)], ret |-> ret]

\* ChunkedFile.read(size)
ReadOp(h, z, size) ==
    LET h1 == ReadFill(h, z, size)
        ret == IF size > 0 THEN Take(h1.readbuf, size)
               ELSE IF size < 0 THEN h1.readbuf
               ELSE <<>>
        rest == IF size > 0 THEN Drop(h1.readbuf, size)
                ELSE IF size < 0 THEN <<>>
                ELSE h1.readbuf
    IN  [h |-> [h1 EXCEPT !.readbuf = rest, !.pos = @ + Len(ret)],
         ret |-> ret]

\* '\n' in s
RECURSIVE HasNL(_)
HasNL(s) ==
    s # <<>> /\ (s[1] = NL \/ HasNL(Tail(s)))

\* str.splitlines(True) of an 8-bit string: a line ends after '\n', after
\* '\r\n' and after a '\r' that no '\n' follows
RECURSIVE SplitLinesAcc(_, _)
SplitLinesAcc(s, cur) ==
    IF s = <<>> THEN (IF cur = <<>> THEN <<>> ELSE <<cur>>)
    ELSE IF s[1] = NL THEN <<Append(cur, NL)>> \o SplitLinesAcc(Tail(s), <<>>)
    ELSE IF s[1] = CR THEN
        IF Len(s) >= 2 /\ s[2] = NL
        THEN <<cur \o <<CR, NL>>>> \o SplitLinesAcc(Drop(s, 2), <<>>)
        ELSE <<Append(cur, CR)>> \o SplitLinesAcc(Tail(s), <<>>)
    ELSE SplitLinesAcc(Tail(s), Append(cur, s[1]))
SplitLines(s) ==
    SplitLinesAcc(s, <<>>)

\* the loop of ChunkedFile.next: read chunks until the buffer holds a '\n'
RECURSIVE LineFill(_, _)
LineFill(h, z) ==
    IF ~HasNL(h.readbuf) THEN
        LET r == NextChunk(h, z)
        IN  IF r.exc # "" THEN r ELSE LineFill(r.h, z)
    ELSE [h |-> h, exc |-> ""]

\* ChunkedFile.next()
RECURSIVE NextOp(_, _)
NextOp(h, z) ==
    IF h.nextbuf # <<>> THEN
        [h |-> [h EXCEPT !.pos = @ + Len(h.nextbuf[1]), !.nextbuf = Tail(@)],
         ret |-> h.nextbuf[1], exc |-> ""]
    ELSE IF h.eof /\ h.readbuf = <<>> THEN
        [h |-> h, ret |-> <<>>, exc |-> "StopIteration"]
    ELSE
        LET f == LineFill(h, z)
            h1 == f.h
            lines == SplitLines(h1.readbuf)
            h2 == IF h1.readbuf[Len(h1.readbuf)] # NL
                  THEN [h1 EXCEPT !.nextbuf = SubSeq(lines, 1, Len(lines) - 1),
                                  !.readbuf = lines[Len(lines)]]
                  ELSE [h1 EXCEPT !.nextbuf = lines, !.readbuf = <<>>]
        IN  IF f.exc # "" /\ ~HasNL(h1.readbuf) THEN
                IF h1.readbuf # <<>>
                THEN LET r == ReadOp(h1, z, -1)
                     IN  [h |-> r.h, ret |-> r.ret, exc |-> ""]
                ELSE [h |-> h1, ret |-> <<>>, exc |-> "StopIteration"]
            ELSE NextOp(h2, z)

\* mutant of LocateChunk: the index of the chunk found, not of the one before
RECURSIVE LocateChunkOffByOne(_, _, _)
LocateChunkOffByOne(h, offset, i) ==
    IF i > Len(h.chunks) THEN h
    ELSE IF h.chunks[i].pos <= offset
    THEN LocateChunkOffByOne([h EXCEPT !.chunkidx = i - 1, !.pos = h.chunks[i].pos],
                             offset, i + 1)
    ELSE LocateChunkOffByOne(h, offset, i + 1)

\* the chunk search of ChunkedFile.seek: the last chunk, in list order, whose
\* offset is at most the target
RECURSIVE LocateChunk(_, _, _)
LocateChunk(h, offset, i) ==
    IF i > Len(h.chunks) THEN h
    ELSE IF h.chunks[i].pos <= offset
    THEN LocateChunk([h EXCEPT !.chunkidx = i - 2, !.pos = h.chunks[i].pos],
                     offset, i + 1)
    ELSE LocateChunk(h, offset, i + 1)

\* an assertion that lets fewer bytes than a whole chunk be skipped
SeekDeltaBelow(h, delta) ==
    delta < h.chunksize \/ h.eof \/ h.is_gzip
\* the assertion of ChunkedFile.seek on the bytes skipped inside the chunk
SeekDeltaOk(h, delta) ==
    delta <= h.chunksize \/ h.eof \/ h.is_gzip

\* the end of ChunkedFile.seek: skip delta bytes, then the two assertions
SeekSkip(h, z, offset) ==
    LET delta == offset - h.pos
        r == ReadOp(h, z, delta)
    IN  IF delta < 0 THEN [h |-> h, exc |-> "AssertionError"]
        ELSE IF ~SeekDeltaOk(r.h, delta) THEN [h |-> r.h, exc |-> "AssertionError"]
        ELSE IF r.h.pos # offset THEN [h |-> r.h, exc |-> "AssertionError"]
        ELSE [h |-> r.h, exc |-> ""]

\* ChunkedFile.seek(offset, whence)
SeekOp(h, z, offset, whence) ==
    IF h.mode # ModeR THEN [h |-> h, exc |-> "AssertionError"]
    ELSE IF whence = 2 THEN [h |-> h, exc |-> "NotImplementedError"]
    ELSE IF whence \notin {0, 1} THEN [h |-> h, exc |-> "ValueError"]
    ELSE
        LET target == IF whence = 1 THEN h.pos + offset ELSE offset
            f == Flush(h, z)
        IN  IF h.is_gzip THEN
                IF target < h.pos THEN [h |-> h, exc |-> "AssertionError"]
                ELSE SeekSkip(h, z, target)
            ELSE IF f.exc # "" THEN [h |-> f.h, exc |-> f.exc]
            ELSE SeekSkip(LocateChunk([f.h EXCEPT !.nextbuf = <<>>,
                                                  !.readbuf = <<>>,
                                                  !.chunkidx = -1,
                                                  !.pos = 0],
                                      target, 1),
                          z, target)

\* mutant of FindStart: the first chunk whose bookmark is below the key wins
RECURSIVE FindStartFirst(_, _, _, _)
FindStartFirst(chunks, bookmark, i, pos) ==
    IF i > Len(chunks) THEN pos
    ELSE IF Truthy(chunks[i].bookmark) /\ StrLess(chunks[i].bookmark[1], bookmark)
    THEN chunks[i].pos
    ELSE FindStartFirst(chunks, bookmark, i + 1, pos)

\* the first loop of ChunkedFile.find_bookmark: the offset of the last chunk
\* whose bookmark is below the key
RECURSIVE FindStart(_, _, _, _)
FindStart(chunks, bookmark, i, pos) ==
    IF i > Len(chunks) THEN pos
    ELSE IF Truthy(chunks[i].bookmark) /\ StrLess(chunks[i].bookmark[1], bookmark)
    THEN FindStart(chunks, bookmark, i + 1, chunks[i].pos)
    ELSE FindStart(chunks, bookmark, i + 1, pos)

\* mutant of FindEnd: the first chunk whose bookmark is above the key is
\* itself the end of the range
RECURSIVE FindEndSelf(_, _, _, _, _)
FindEndSelf(chunks, bookmark, i, ret_next, pos) ==
    IF i > Len(chunks) THEN [end |-> None, exc |-> ""]
    ELSE IF Truthy(chunks[i].bookmark) /\ StrLess(bookmark, chunks[i].bookmark[1])
    THEN [end |-> Some(chunks[i].pos), exc |-> ""]
    ELSE FindEndSelf(chunks, bookmark, i + 1, FALSE, pos)

\* the second loop of ChunkedFile.find_bookmark (give_range): the offset of
\* the chunk after the first chunk whose bookmark is above the key
RECURSIVE FindEnd(_, _, _, _, _)
FindEnd(chunks, bookmark, i, ret_next, pos) ==
    IF i > Len(chunks) THEN [end |-> None, exc |-> ""]
    ELSE IF ret_next THEN
        IF chunks[i].pos > pos
        THEN [end |-> Some(chunks[i].pos), exc |-> ""]
        ELSE [end |-> None, exc |-> "AssertionError"]
    ELSE IF Truthy(chunks[i].bookmark) /\ StrLess(bookmark, chunks[i].bookmark[1])
    THEN FindEnd(chunks, bookmark, i + 1, TRUE, pos)
    ELSE FindEnd(chunks, bookmark, i + 1, FALSE, pos)

\* mutant of FindBookmark: the start is the last chunk whose bookmark is at
\* most the key
FindBookmarkLeq(h, bookmark, give_range) ==
    LET hits == {i \in 1..Len(h.chunks) :
                    Truthy(h.chunks[i].bookmark)
                    /\ StrLeq(h.chunks[i].bookmark[1], bookmark)}
        pos == IF hits = {} THEN 0
               ELSE h.chunks[CHOOSE i \in hits : \A j \in hits : j <= i].pos
        e == FindEnd(h.chunks, bookmark, 1, FALSE, pos)
    IN  IF give_range THEN [pos |-> pos, end |-> e.end, exc |-> e.exc]
        ELSE [pos |-> pos, end |-> None, exc |-> ""]

\* ChunkedFile.find_bookmark(bookmark, give_range): pos, end (None without
\* give_range or when unbounded) and the exception raised
FindBookmark(h, bookmark, give_range) ==
    LET pos == FindStart(h.chunks, bookmark, 1, 0)
        e == FindEnd(h.chunks, bookmark, 1, FALSE, pos)
    IN  IF give_range THEN [pos |-> pos, end |-> e.end, exc |-> e.exc]
        ELSE [pos |-> pos, end |-> None, exc |-> ""]

\* a tell() that counts the bytes read ahead into the buffer as well
TellBuffered(h) ==
    h.pos + Len(h.readbuf)
\* ChunkedFile.tell()
Tell(h) ==
    h.pos

\* ------------------------------------------------ parsers (parsers.py)
\* The list parsers built on _IMDbBasicParser: color-info, which is looked
\* up through the bookmarks of its sub-stream, and genres, which is looked
\* up through a secondary index sub-stream.  Text (unicode) is a sequence of
\* code points.  The Timer calls, which only sleep and print, are left out.

\* '\t', the field separator of a list line and of an index line
TAB ==
    9
\* ' ', the separator of the offsets of an index line
SPACE ==
    32
\* '-', the byte of the header indicator of a basic list
DASH ==
    45
\* '{', which marks a TV episode
LBRACE ==
    123
\* length of the header indicator of a basic list: '-'*77
DashCount ==
    77
\* the chunk size the parsers open every sub-stream with (the default of
\* ChunkedFile, scaled down)
DefaultChunk ==
    8

\* the bytes str.strip() and str.rstrip() remove
Whitespace ==
    {9, 10, 11, 12, 13, 32}
RECURSIVE RStrip(_)
RStrip(s) ==
    IF s # <<>> /\ s[Len(s)] \in Whitespace
    THEN RStrip(SubSeq(s, 1, Len(s) - 1))
    ELSE s
RECURSIVE LStrip(_)
LStrip(s) ==
    IF s # <<>> /\ s[1] \in Whitespace THEN LStrip(Tail(s)) ELSE s
Strip(s) ==
    LStrip(RStrip(s))

\* str.decode('iso-8859-1'): every byte is the code point of its value
Latin1Decode(s) ==
    [i \in 1..Len(s) |-> s[i]]
\* unicode.encode('utf-8'), for the code points below 0x800
RECURSIVE Utf8Encode(_)
Utf8Encode(u) ==
    IF u = <<>> THEN <<>>
    ELSE (IF u[1] < 128 THEN <<u[1]>>
          ELSE <<192 + (u[1] \div 64), 128 + (u[1] % 64)>>)
         \o Utf8Encode(Tail(u))
\* str.decode('utf-8'), for the one- and two-byte sequences Utf8Encode makes
RECURSIVE Utf8Decode(_)
Utf8Decode(s) ==
    IF s = <<>> THEN <<>>
    ELSE IF s[1] < 192 \/ Len(s) < 2 THEN <<s[1]>> \o Utf8Decode(Tail(s))
    ELSE <<(s[1] - 192) * 64 + (s[2] - 128)>> \o Utf8Decode(Drop(s, 2))

\* str(i) of a non-negative integer
RECURSIVE FormatDec(_)
FormatDec(n) ==
    IF n < 10 THEN <<48 + n>> ELSE FormatDec(n \div 10) \o <<48 + (n % 10)>>
\* whether int(x) accepts the text: digits, surrounded by whitespace
IsDec(x) ==
    LET t == Strip(x)
    IN  t # <<>> /\ \A i \in 1..Len(t) : t[i] >= 48 /\ t[i] <= 57
RECURSIVE ParseDecAcc(_, _)
ParseDecAcc(t, acc) ==
    IF t = <<>> THEN acc ELSE ParseDecAcc(Tail(t), acc * 10 + (t[1] - 48))
\* int(x)
ParseDec(x) ==
    ParseDecAcc(Strip(x), 0)

\* pat in s
RECURSIVE HasSub(_, _)
HasSub(s, pat) ==
    IF Len(s) < Len(pat) THEN FALSE
    ELSE SubSeq(s, 1, Len(pat)) = pat \/ HasSub(Tail(s), pat)
\* a parser that drops no line
NeverTvvg(line) ==
    FALSE
\* '(VG)' in line or '{' in line
IsTvvg(line) ==
    HasSub(line, <<40, 86, 71, 41>>) \/ HasSub(line, <<LBRACE>>)

\* the fields of a split() that are not empty
RECURSIVE NonEmpty(_)
NonEmpty(fields) ==
    IF fields = <<>> THEN <<>>
    ELSE (IF fields[1] = <<>> THEN <<>> ELSE <<fields[1]>>)
         \o NonEmpty(Tail(fields))

\* _IMDbBasicParser._parse_line: () for a line without a second field, else
\* (title, loc, value)
ParseLine(line, loc) ==
    LET data == NonEmpty(SplitOn(line, TAB, <<>>))
    IN  IF Len(data) < 2 THEN [kind |-> "skip"]
        ELSE [kind |-> "rec", title |-> data[1], loc |-> loc, val |-> data[2]]
\* _IMDbParser._make_result: (data[0],) + tuple(data[2:])
MakeResult(data) ==
    [title |-> data.title, val |-> data.val]

\* ':', which ends the country of a running time
COLON ==
    58
\* unicode.isdigit() of a code point of ISO-8859-1: the decimal digits and
\* the superscripts two, three and one
IsDigit(c) ==
    (c >= 48 /\ c <= 57) \/ c \in {178, 179, 185}
\* the index of the first character that is not a digit, 0 when all are
RECURSIVE FirstNonDigit(_, _)
FirstNonDigit(s, i) ==
    IF i > Len(s) THEN 0
    ELSE IF ~IsDigit(s[i]) THEN i
    ELSE FirstNonDigit(s, i + 1)
\* what _make_result returns or raises
TimeResult(val, country, exc) ==
    [val |-> val, country |-> country, exc |-> exc]
\* the except clause of IMDbRunningTimeParser._make_result for the stripped
\* duration and i, its first character that is not a digit:
\* int(duration[:i], 10), or None when the loop ends without a break
LeadingDigits(duration, i, country) ==
    IF i = 0 THEN TimeResult(None, country, "")
    ELSE IF IsDec(Take(duration, i - 1))
    THEN TimeResult(Some(ParseDec(Take(duration, i - 1))), country, "")
    ELSE TimeResult(None, country, "ValueError")
\* IMDbRunningTimeParser._make_result from "duration = duration.strip()"
TimeOf(duration, country) ==
    IF IsDec(duration) THEN TimeResult(Some(ParseDec(duration)), country, "")
    ELSE LeadingDigits(duration, FirstNonDigit(duration, 1), country)
\* IMDbRunningTimeParser._make_result for a duration that is not empty:
\* the (duration, country) of the result
RunningTime(duration) ==
    IF IsDigit(duration[1]) THEN TimeOf(Strip(duration), None)
    ELSE IF Len(SplitOn(duration, COLON, <<>>)) < 2
    THEN TimeResult(None, None, "ValueError")
    ELSE TimeOf(Strip(Drop(duration,
                           Len(SplitOn(duration, COLON, <<>>)[1]) + 1)),
                Some(SplitOn(duration, COLON, <<>>)[1]))

\* the loop of _skip_to: the lines after the first line that is the indicator
RECURSIVE SkipToLoop(_, _)
SkipToLoop(lines, indicator) ==
    IF lines = <<>> THEN [rest |-> <<>>, exc |-> "SyntaxError"]
    ELSE IF Strip(lines[1]) = indicator THEN [rest |-> Tail(lines), exc |-> ""]
    ELSE SkipToLoop(Tail(lines), indicator)
\* _skip_to(fileobj, indicator, additional_skips)
SkipTo(lines, indicator, additional_skips) ==
    LET r == SkipToLoop(lines, indicator)
    IN  IF r.exc # "" THEN r
        ELSE IF Len(r.rest) < additional_skips
        THEN [rest |-> <<>>, exc |-> "StopIteration"]
        ELSE [rest |-> Drop(r.rest, additional_skips), exc |-> ""]

\* IMDbColorInfoParser: no index sub-stream, _skip_to(fileobj, '-'*77, 3)
ColorInfoParser ==
    [listname |-> "colorinfo", indexname |-> None,
     indicator |-> [i \in 1..DashCount |-> DASH], skips |-> 3]
\* IMDbGenresParser: indexed, _skip_to(fileobj, '8: THE GENRES LIST', 2)
GenresParser ==
    [listname |-> "genres", indexname |-> Some("genres.index"),
     indicator |-> <<56, 58, 32, 84, 72, 69, 32, 71, 69, 78, 82, 69, 83, 32,
                     76, 73, 83, 84>>,
     skips |-> 2]
ParserOf(name) ==
    IF name = "colorinfo" THEN ColorInfoParser ELSE GenresParser

\* indexobj[title].append(idxline) on the accumulator, a sequence of
\* [title, locs] in the order the titles first appeared
RECURSIVE IndexAdd(_, _, _)
IndexAdd(indexobj, title, loc) ==
    IF indexobj = <<>> THEN <<[title |-> title, locs |-> <<loc>>]>>
    ELSE IF indexobj[1].title = title
    THEN <<[indexobj[1] EXCEPT !.locs = Append(@, loc)]>> \o Tail(indexobj)
    ELSE <<indexobj[1]>> \o IndexAdd(Tail(indexobj), title, loc)
\* the position of the least title of the accumulator
LeastTitle(indexobj) ==
    CHOOSE i \in 1..Len(indexobj) :
        \A j \in 1..Len(indexobj) : StrLeq(indexobj[i].title, indexobj[j].title)
\* a sequence without its i-th element
Without(seq, i) ==
    SubSeq(seq, 1, i - 1) \o SubSeq(seq, i + 1, Len(seq))
\* sorted(indexobj.items())
RECURSIVE SortIndex(_)
SortIndex(indexobj) ==
    IF indexobj = <<>> THEN <<>>
    ELSE <<indexobj[LeastTitle(indexobj)]>>
         \o SortIndex(Without(indexobj, LeastTitle(indexobj)))
\* ' '.join(str(i) for i in linenos)
RECURSIVE JoinDec(_)
JoinDec(linenos) ==
    IF Len(linenos) = 1 THEN FormatDec(linenos[1])
    ELSE FormatDec(linenos[1]) \o <<SPACE>> \o JoinDec(Tail(linenos))

\* write(data) and bookmark(key) as the next statement after a call with
\* outcome r: not reached when that call raised
WriteTo(r, data) ==
    IF r.exc # "" THEN r ELSE WriteOp(r.h, r.zip, data)
BookmarkTo(r, key) ==
    IF r.exc # "" THEN r ELSE BookmarkOp(r.h, r.zip, key)

\* The line loop of rebuild_index: every line is copied, parsed and, when it
\* is a record, indexed or bookmarked.  RebuildLines is the loop, RebuildLine
\* the body after copy_to.write(line) with outcome w and the parsed data,
\* RebuildMark the end of the body after copy_to.bookmark(title) with
\* outcome b.
RECURSIVE RebuildLines(_, _, _, _, _, _)
RebuildMark(parser, b, lines, loc, indexobj) ==
    IF b.exc # ""
    THEN [h |-> b.h, zip |-> b.zip, indexobj |-> indexobj, exc |-> b.exc]
    ELSE RebuildLines(parser, b.h, b.zip, lines, loc, indexobj)
RebuildLine(parser, w, data, lines, indexobj) ==
    IF w.exc # ""
    THEN [h |-> w.h, zip |-> w.zip, indexobj |-> indexobj, exc |-> w.exc]
    ELSE IF data.kind = "skip"
    THEN RebuildLines(parser, w.h, w.zip, lines, Tell(w.h), indexobj)
    ELSE IF parser.indexname # None
    THEN RebuildLines(parser, w.h, w.zip, lines, Tell(w.h),
                      IndexAdd(indexobj, Utf8Encode(data.title), data.loc))
    ELSE RebuildMark(parser, BookmarkTo(w, Utf8Encode(data.title)), lines,
                     Tell(w.h), indexobj)
RebuildLines(parser, h, z, lines, loc, indexobj) ==
    IF lines = <<>> THEN [h |-> h, zip |-> z, indexobj |-> indexobj, exc |-> ""]
    ELSE IF IsTvvg(lines[1])
    THEN RebuildLines(parser, h, z, Tail(lines), loc, indexobj)
    ELSE RebuildLine(parser, WriteOp(h, z, lines[1]),
                     ParseLine(Latin1Decode(RStrip(lines[1])), loc),
                     Tail(lines), indexobj)

\* The index loop of rebuild_index: one line 'title \t offsets \n' per
\* title, each followed by bookmark(title), then close().  WriteIndexNext is
\* the rest of the loop after the calls of one title, with outcome b.
RECURSIVE WriteIndex(_, _, _)
WriteIndexNext(b, items) ==
    IF b.exc # "" THEN b ELSE WriteIndex(b.h, b.zip, items)
WriteIndex(h, z, items) ==
    IF items = <<>> THEN CloseOp(h, z)
    ELSE WriteIndexNext(
            BookmarkTo(
                WriteTo(WriteTo(WriteTo(WriteOp(h, z, items[1].title), <<TAB>>),
                                JoinDec(items[1].locs)),
                        <<NL>>),
                items[1].title),
            Tail(items))

\* what rebuild_index leaves: the archive and the exception raised
Rebuilt(r) ==
    [zip |-> r.zip, exc |-> r.exc]
\* rebuild_index from "if self.indexname": the index sub-stream is opened
\* for appending and written; c is the outcome of copy_to.close()
RebuildSecondary(parser, c, indexobj) ==
    IF c.exc # "" \/ parser.indexname = None THEN Rebuilt(c)
    ELSE Rebuilt(WriteIndex(c.h, c.zip, SortIndex(indexobj)))
\* rebuild_index from copy_to.close(): r is the outcome of the line loop,
\* reopen the handle the index sub-stream is written through
Reopened(c, indexname) ==
    IF c.exc # "" \/ indexname = None THEN c
    ELSE [h |-> OpenHandle(c.zip, indexname[1], ModeA, DefaultChunk, FALSE).h,
          zip |-> c.zip, exc |-> ""]
RebuildClose(parser, r) ==
    IF r.exc # "" THEN Rebuilt(r)
    ELSE RebuildSecondary(parser, Reopened(CloseOp(r.h, r.zip), parser.indexname),
                          r.indexobj)
\* rebuild_index from _skip_header: copy_to is the handle opened on the
\* list's sub-stream, hd the outcome of _skip_header
RebuildCopy(parser, copy_to, hd) ==
    IF hd.exc # "" THEN [zip |-> copy_to.zip, exc |-> hd.exc]
    ELSE RebuildClose(parser,
                      RebuildLines(parser, copy_to.h, copy_to.zip, hd.rest,
                                   Tell(copy_to.h), <<>>))
\* _IMDbParser.rebuild_index(do_copy=True) on one source file: the archive
\* afterwards and the exception raised
RebuildIndex(parser, z, file) ==
    RebuildCopy(parser,
                OpenHandle(z, parser.listname, ModeA, DefaultChunk,
                           parser.indexname # None),
                SkipTo(file, parser.indicator, parser.skips))

\* rebuild_index when open_compressed raises IOError for the list file: the
\* file is skipped and the empty sub-streams are closed
RebuildMissing(parser, copy_to) ==
    RebuildClose(parser, [h |-> copy_to.h, zip |-> copy_to.zip,
                          indexobj |-> <<>>, exc |-> ""])
\* _IMDbParser.rebuild_index(do_copy=True) in a directory where the list
\* file is missing (None) or there
RebuildFile(parser, z, file) ==
    IF file = None
    THEN RebuildMissing(parser,
                        OpenHandle(z, parser.listname, ModeA, DefaultChunk,
                                   parser.indexname # None))
    ELSE RebuildIndex(parser, z, file[1])

\* parsers(): the property parsers, sorted by class name
ParserNames ==
    <<"colorinfo", "genres">>
\* The loop of IMDb.rebuild_index over the parsers: the archive afterwards,
\* the parsers run and the exception that left the loop.  RebuildNext is the
\* loop after obj.rebuild_index() of the first of names, with outcome r.
RECURSIVE RebuildParsers(_, _, _, _)
RebuildNext(names, r, dir, ran) ==
    IF r.exc # ""
    THEN [called |-> TRUE, zip |-> r.zip, ran |-> ran, exc |-> r.exc]
    ELSE RebuildParsers(Tail(names), r.zip, dir, ran)
RebuildParsers(names, z, dir, ran) ==
    IF names = <<>>
    THEN [called |-> TRUE, zip |-> z, ran |-> ran, exc |-> ""]
    ELSE RebuildNext(names, RebuildFile(ParserOf(names[1]), z, dir[names[1]]),
                     dir, Append(ran, names[1]))
\* "raise Exception('%s exists' % self.dbfile)"
Rejected(z) ==
    [called |-> TRUE, zip |-> z, ran |-> <<>>, exc |-> "Exception"]
\* a rebuild that does not look whether the archive exists
RebuildUnchecked(exists, z, dir) ==
    RebuildParsers(ParserNames, z, dir, <<>>)
\* IMDb.rebuild_index(dbdir) up to the creation of the search index
RebuildAll(exists, z, dir) ==
    IF exists THEN Rejected(z)
    ELSE RebuildParsers(ParserNames, z, dir, <<>>)

\* sorted(queries): ascending code point order
LeastString(S) ==
    CHOOSE x \in S : \A y \in S : StrLeq(x, y)
RECURSIVE SortStrings(_)
SortStrings(S) ==
    IF S = {} THEN <<>>
    ELSE <<LeastString(S)>> \o SortStrings(S \ {LeastString(S)})
\* the keys of a dict of offsets, ascending
LeastInt(S) ==
    CHOOSE x \in S : \A y \in S : x <= y
RECURSIVE SortInts(_)
SortInts(S) ==
    IF S = {} THEN <<>>
    ELSE <<LeastInt(S)>> \o SortInts(S \ {LeastInt(S)})
\* Counter.update((key,))
CountOne(locs, key) ==
    IF key \in DOMAIN locs THEN [locs EXCEPT ![key] = @ + 1]
    ELSE [k \in DOMAIN locs \cup {key} |-> IF k = key THEN 1 ELSE locs[k]]
RECURSIVE CountAll(_, _)
CountAll(locs, keys) ==
    IF keys = <<>> THEN locs
    ELSE CountAll(CountOne(locs, keys[1]), Tail(keys))
\* a dict or Counter without keys
EmptyDict ==
    [k \in {} |-> 0]

\* The scan of _find_seeks_index for one query: index lines are read from
\* where the handle stands, the offsets of every queried title are counted,
\* and the scan stops at the first title above the query that is not
\* queried.  IndexScan is the loop, IndexLine its body after next() with
\* outcome r, IndexFields the body after the split at '\t', IndexCount the
\* update of the Counter with the offsets nums.
RECURSIVE IndexScan(_, _, _, _, _)
IndexCount(h, z, query, queries, locs, nums) ==
    IF \E i \in 1..Len(nums) : ~IsDec(nums[i])
    THEN [h |-> h, locs |-> locs, exc |-> "ValueError"]
    ELSE IndexScan(h, z, query, queries,
                   CountAll(locs, [i \in 1..Len(nums) |-> ParseDec(nums[i])]))
IndexFields(h, z, query, queries, locs, parts) ==
    IF Len(parts) # 2 THEN [h |-> h, locs |-> locs, exc |-> "ValueError"]
    ELSE IF parts[1] \in queries
    THEN IndexCount(h, z, query, queries, locs, SplitOn(parts[2], SPACE, <<>>))
    ELSE IF StrLess(query, parts[1]) THEN [h |-> h, locs |-> locs, exc |-> ""]
    ELSE IndexScan(h, z, query, queries, locs)
IndexLine(r, z, query, queries, locs) ==
    IF r.exc # "" THEN [h |-> r.h, locs |-> locs, exc |-> ""]
    ELSE IndexFields(r.h, z, query, queries, locs,
                     SplitOn(Utf8Decode(r.ret), TAB, <<>>))
IndexScan(h, z, query, queries, locs) ==
    IndexLine(NextOp(h, z), z, query, queries, locs)

\* The query loop of _find_seeks_index.  IndexQueries is the loop,
\* IndexSeek its body from "if bookmark != last_bookmark", IndexSought the
\* body after indexfh.seek(bookmark) with outcome k, IndexScanned the end of
\* the body after the scan with outcome sc.
RECURSIVE IndexQueries(_, _, _, _, _, _)
IndexScanned(sc, z, qs, queries, bookmark) ==
    IF sc.exc # "" THEN [locs |-> sc.locs, exc |-> sc.exc]
    ELSE IndexQueries(sc.h, z, qs, queries, bookmark, sc.locs)
IndexSought(k, z, qs, queries, bookmark, locs) ==
    IF k.exc # "" THEN [locs |-> locs, exc |-> k.exc]
    ELSE IndexScanned(IndexScan(k.h, z, qs[1], queries, locs), z, Tail(qs),
                      queries, bookmark)
IndexSeek(h, z, qs, queries, last_bookmark, locs, bookmark) ==
    IndexSought(IF bookmark # last_bookmark THEN SeekOp(h, z, bookmark, 0)
                ELSE [h |-> h, exc |-> ""],
                z, qs, queries, bookmark, locs)
IndexQueries(h, z, qs, queries, last_bookmark, locs) ==
    IF qs = <<>> THEN [locs |-> locs, exc |-> ""]
    ELSE IndexSeek(h, z, qs, queries, last_bookmark, locs,
                   FindBookmark(h, Utf8Encode(qs[1]), FALSE).pos)

\* sorted(locs.items()) as ranges (start, None, nresults)
IndexRanges(locs, starts) ==
    [i \in 1..Len(starts) |->
        [start |-> Some(starts[i]), end |-> None, n |-> locs[starts[i]]]]
\* what _find_seeks_index yields after the query loop with outcome r
IndexPlan(r) ==
    [locs |-> IndexRanges(r.locs, SortInts(DOMAIN r.locs)), exc |-> r.exc]
\* _find_seeks_index: the ranges (start, None, nresults) in ascending start
FindSeeksIndex(z, indexname, queries) ==
    IndexPlan(IndexQueries(OpenHandle(z, indexname, ModeR, DefaultChunk, TRUE).h,
                           z, SortStrings(queries), queries, 0, EmptyDict))

\* the end _find_seeks_bookmarks keeps for a start when find_bookmark
\* returned end: None for no end, a larger end replaces a smaller one (and,
\* as None < n in Python 2, replaces None)
KeptEndFirst(endlocs, start, end) ==
    IF start \in DOMAIN endlocs THEN endlocs[start]
    ELSE IF end = None THEN None
    ELSE IF end[1] = 0 THEN None
    ELSE end
KeptEnd(endlocs, start, end) ==
    IF end = None THEN None
    ELSE IF end[1] = 0 THEN None
    ELSE IF start \notin DOMAIN endlocs THEN end
    ELSE IF endlocs[start] = None THEN end
    ELSE IF endlocs[start][1] < end[1] THEN end
    ELSE endlocs[start]
\* The query loop of _find_seeks_bookmarks: how many queries begin at each
\* start, and the end kept for each start.  BookmarkQuery is the body after
\* find_bookmark with outcome r.
RECURSIVE BookmarkQueries(_, _, _, _)
BookmarkQuery(h, qs, locs, endlocs, r) ==
    IF r.exc # "" THEN [locs |-> locs, endlocs |-> endlocs, exc |-> r.exc]
    ELSE BookmarkQueries(
            h, qs, CountOne(locs, r.pos),
            [k \in DOMAIN endlocs \cup {r.pos} |->
                IF k = r.pos THEN KeptEnd(endlocs, r.pos, r.end) ELSE endlocs[k]])
BookmarkQueries(h, qs, locs, endlocs) ==
    IF qs = <<>> THEN [locs |-> locs, endlocs |-> endlocs, exc |-> ""]
    ELSE BookmarkQuery(h, Tail(qs), locs, endlocs,
                       FindBookmark(h, Utf8Encode(qs[1]), TRUE))

\* the range _find_seeks_bookmarks has accumulated, as it yields it
Accumulated(start, end, nresults) ==
    IF nresults > 0
    THEN <<[start |-> Some(start), end |-> end, n |-> nresults]>>
    ELSE <<>>
\* the end of a range widened by the end of a range merged into it
Widened(end, nextend) ==
    IF nextend = None THEN nextend
    ELSE IF end = None THEN end
    ELSE IF nextend[1] > end[1] THEN nextend
    ELSE end
\* the second loop of _find_seeks_bookmarks: ranges that touch or overlap
\* are merged
RECURSIVE Normalize(_, _, _, _, _, _)
Normalize(starts, locs, endlocs, start, end, nresults) ==
    IF starts = <<>> THEN Accumulated(start, end, nresults)
    ELSE IF (IF end = None THEN TRUE ELSE starts[1] <= end[1])
    THEN Normalize(Tail(starts), locs, endlocs, start,
                   Widened(end, endlocs[starts[1]]), nresults + locs[starts[1]])
    ELSE Accumulated(start, end, nresults)
         \o Normalize(Tail(starts), locs, endlocs, starts[1],
                      endlocs[starts[1]], locs[starts[1]])

\* what _find_seeks_bookmarks yields after the query loop with outcome r
BookmarkPlan(r) ==
    [locs |-> IF r.exc # "" THEN <<>>
              ELSE Normalize(SortInts(DOMAIN r.locs), r.locs, r.endlocs,
                             0, Some(0), 0),
     exc |-> r.exc]
\* _find_seeks_bookmarks: the ranges (start, end, nresults)
FindSeeksBookmarks(fileobj, queries) ==
    BookmarkPlan(BookmarkQueries(fileobj, SortStrings(queries), EmptyDict,
                                 EmptyDict))

\* "if endloc and loc == endloc"
AtEnd(loc, endloc) ==
    IF endloc = None THEN FALSE ELSE endloc[1] # 0 /\ loc = endloc[1]
\* The line loop of _run_search: lines are read until the range ends, the
\* stream ends or, with queries, a record of a queried title was yielded.
\* The search state s holds the reader, loc, the records yielded and the
\* exception raised, and what the reader did: the offset of the line last
\* read (line), the offsets of the lines of the records yielded (at) and
\* the starts of the ranges skipped (skipped).  ScanLines is the loop, ScanLine its body after next()
\* with outcome r, ScanData the body after _parse_line and tell().
RECURSIVE ScanLines(_, _, _, _)
ScanData(s, data, z, endloc, queries) ==
    IF data.kind = "skip" THEN ScanLines(s, z, endloc, queries)
    ELSE IF queries = None
    THEN ScanLines([s EXCEPT !.out = Append(@, MakeResult(data)),
                             !.at = Append(@, s.line)],
                   z, endloc, queries)
    ELSE IF data.title \in queries[1]
    THEN [s EXCEPT !.out = Append(@, MakeResult(data)),
                   !.at = Append(@, s.line)]
    ELSE ScanLines(s, z, endloc, queries)
ScanLine(s, r, z, endloc, queries) ==
    IF r.exc # "" \/ AtEnd(s.loc, endloc) THEN [s EXCEPT !.h = r.h]
    ELSE ScanData([s EXCEPT !.h = r.h, !.loc = Tell(r.h), !.line = Tell(s.h)],
                  ParseLine(Latin1Decode(RStrip(r.ret)), s.loc),
                  z, endloc, queries)
ScanLines(s, z, endloc, queries) ==
    ScanLine(s, NextOp(s.h, z), z, endloc, queries)

\* for _ in xrange(nresults)
RECURSIVE ScanTimes(_, _, _, _, _)
ScanTimes(s, z, nresults, endloc, queries) ==
    IF nresults <= 0 THEN s
    ELSE ScanTimes(ScanLines(s, z, endloc, queries), z, nresults - 1,
                   endloc, queries)

\* the search state after fileobj.seek(startloc) with outcome k and
\* loc = fileobj.tell()
Sought(s, k) ==
    [s EXCEPT !.h = k.h, !.exc = k.exc,
              !.loc = IF k.exc # "" THEN @ ELSE Tell(k.h)]
\* the passes over one range, unless the seek to it raised
ScanFrom(s, z, range, queries) ==
    IF s.exc # "" THEN s
    ELSE ScanTimes(s, z, range.n, range.end, queries)
\* a reader that seeks to every range it is not at
SeeksBack(startloc, loc) ==
    startloc # loc
\* if startloc > loc: the reader seeks to the start of the range
SeeksTo(startloc, loc) ==
    startloc > loc
\* the body of the range loop of _run_search: seek forward to the start of
\* the range, skip a range that starts behind the reader
ScanRange(s, z, range, queries) ==
    IF queries = None THEN ScanFrom(s, z, range, queries)
    ELSE IF SeeksTo(range.start[1], s.loc)
    THEN ScanFrom(Sought(s, SeekOp(s.h, z, range.start[1], 0)), z, range,
                  queries)
    ELSE IF range.start[1] < s.loc
    THEN [s EXCEPT !.skipped = Append(@, range.start[1])]
    ELSE ScanFrom(s, z, range, queries)
\* the range loop of _run_search, left when a call raised
RECURSIVE ScanRanges(_, _, _, _)
ScanRanges(s, z, locs, queries) ==
    IF locs = <<>> \/ s.exc # "" THEN s
    ELSE ScanRanges(ScanRange(s, z, locs[1], queries), z, Tail(locs), queries)

\* what _run_search yielded, and the exception it raised
Yielded(s) ==
    [out |-> s.out, exc |-> s.exc, at |-> s.at, skipped |-> s.skipped]
\* _run_search left before a line was read
NothingRead(exc) ==
    [out |-> <<>>, exc |-> exc, at |-> <<>>, skipped |-> <<>>]
\* _run_search from "for startloc, endloc, nresults in locs"
RunPlan(fileobj, z, queries, plan) ==
    IF plan.exc # "" THEN NothingRead(plan.exc)
    ELSE Yielded(ScanRanges([h |-> fileobj, loc |-> 0, out |-> <<>>,
                             line |-> 0, at |-> <<>>, skipped |-> <<>>,
                             exc |-> ""],
                            z, plan.locs, queries))
\* _run_search, "Locate seek positions for all queries": the ranges
\* (start, end, nresults) of the index planner, of the bookmark planner, or
\* the dummy range of a full scan
SeekPlan(parser, fileobj, z, queries) ==
    IF queries = None
    THEN [locs |-> <<[start |-> None, end |-> None, n |-> 1]>>, exc |-> ""]
    ELSE IF parser.indexname # None
    THEN FindSeeksIndex(z, parser.indexname[1], queries[1])
    ELSE FindSeeksBookmarks(fileobj, queries[1])
\* _run_search from "Locate seek positions for all queries"
RunOpened(parser, fileobj, z, queries) ==
    RunPlan(fileobj, z, queries, SeekPlan(parser, fileobj, z, queries))
\* _IMDbParser._run_search(queries) on the archive: the records yielded, in
\* order, and the exception raised; queries is None for a full scan
RunSearch(parser, z, queries) ==
    IF queries = Some({}) THEN NothingRead("")
    ELSE RunOpened(parser,
                   OpenHandle(z, parser.listname, ModeR, DefaultChunk, TRUE).h,
                   z, queries)

\* ------------------------------------------------ the aka-titles parser

\* IMDbAkaParser: indexed, _skip_to(fileobj, '===============', 2)
AkaParser ==
    [listname |-> "aka", indexname |-> Some("aka.index"),
     indicator |-> [i \in 1..15 |-> 61], skips |-> 2]
\* '   (aka ', with which the line of an alternate name starts
AkaPrefix ==
    <<SPACE, SPACE, SPACE, 40, 97, 107, 97, SPACE>>
\* what _parse_line returns or raises, and self.last_title afterwards
AkaSkip(last_title, exc) ==
    [kind |-> "skip", title |-> <<>>, loc |-> 0, name |-> <<>>,
     note |-> None, last_title |-> last_title, exc |-> exc]
\* (self.last_title, loc, info[0][:-1], info[1] if len(info) > 1 else None)
\* for info = line[8:].split("\t")
AkaData(info, loc, last_title) ==
    [kind |-> "rec", title |-> last_title[1], loc |-> loc,
     name |-> SubSeq(info[1], 1, Len(info[1]) - 1),
     note |-> IF Len(info) > 1 THEN Some(info[2]) ELSE None,
     last_title |-> last_title, exc |-> ""]
\* IMDbAkaParser._parse_line(line, loc) of a parser whose last_title is
\* last_title (None, or the line of a title)
AkaParseLine(line, loc, last_title) ==
    IF line = <<>> THEN AkaSkip(None, "")
    ELSE IF Take(line, Len(AkaPrefix)) = AkaPrefix
    THEN IF last_title = None THEN AkaSkip(last_title, "AssertionError")
         ELSE AkaData(SplitOn(Drop(line, 8), TAB, <<>>), loc, last_title)
    ELSE IF line[1] # SPACE THEN AkaSkip(Some(line), "")
    ELSE AkaSkip(last_title, "Exception")
\* _make_result of the aka parser: (data[0],) + tuple(data[2:])
AkaResult(data) ==
    [title |-> data.title, name |-> data.name, note |-> data.note]
\* The line loop of _run_search(None) on the list file itself (no dbfile):
\* a line of a video game or of a TV episode is dropped, every other line
\* is parsed and a record is yielded.  AkaParsed is the body after
\* _parse_line returned data; loc stays 0 on a list file.
RECURSIVE AkaLines(_, _, _)
AkaParsed(data, lines, out) ==
    IF data.exc # ""
    THEN [out |-> out, exc |-> data.exc, at |-> <<>>, skipped |-> <<>>]
    ELSE IF data.kind = "skip" THEN AkaLines(lines, data.last_title, out)
    ELSE AkaLines(lines, data.last_title, Append(out, AkaResult(data)))
AkaLines(lines, last_title, out) ==
    IF lines = <<>>
    THEN [out |-> out, exc |-> "", at |-> <<>>, skipped |-> <<>>]
    ELSE IF IsTvvg(lines[1]) THEN AkaLines(Tail(lines), last_title, out)
    ELSE AkaParsed(AkaParseLine(Latin1Decode(RStrip(lines[1])), 0, last_title),
                   Tail(lines), out)
\* _run_search(None) from _skip_header, hd its outcome
AkaAfterHeader(hd) ==
    IF hd.exc # "" THEN NothingRead(hd.exc)
    ELSE AkaLines(hd.rest, None, <<>>)
\* IMDbAkaParser(dbfile=None, dbdir=dbdir).search() on a list file of the
\* lines file: the records yielded and the exception raised
AkaSearch(file) ==
    AkaAfterHeader(SkipTo(file, AkaParser.indicator, AkaParser.skips))

\* ------------------------------------------------ the IMDb front end

\* the titles of the records rs
TitlesOf(rs) ==
    {rs[i].title : i \in 1..Len(rs)}
\* the position of the last record of title t among rs
LastOfTitle(rs, t) ==
    CHOOSE i \in 1..Len(rs) :
        rs[i].title = t /\ \A j \in (i + 1)..Len(rs) : rs[j].title # t
\* dict(pairs): each title with the value of its last pair
DictOf(rs) ==
    [t \in TitlesOf(rs) |-> rs[LastOfTitle(rs, t)].val]
\* list.sort() as insertions into a sorted list
RECURSIVE InsertSorted(_, _)
InsertSorted(seq, v) ==
    IF seq = <<>> THEN <<v>>
    ELSE IF StrLess(v, seq[1]) THEN <<v>> \o seq
    ELSE <<seq[1]>> \o InsertSorted(Tail(seq), v)
\* data[title].append(value) for the records of title t, then sort()
RECURSIVE SortedValues(_, _)
SortedValues(rs, t) ==
    IF rs = <<>> THEN <<>>
    ELSE IF rs[Len(rs)].title = t
    THEN InsertSorted(SortedValues(SubSeq(rs, 1, Len(rs) - 1), t),
                      rs[Len(rs)].val)
    ELSE SortedValues(SubSeq(rs, 1, Len(rs) - 1), t)
\* the defaultdict(list) of IMDbGenresParser.search
ListsOf(rs) ==
    [t \in TitlesOf(rs) |-> SortedValues(rs, t)]
\* what search() of a parser makes of the records _run_search yielded with
\* outcome r: a dict (color-info) or a dict of sorted lists (genres)
SearchResult(name, r) ==
    [ret |-> IF r.exc # "" THEN EmptyDict
             ELSE IF name = "colorinfo" THEN DictOf(r.out)
             ELSE ListsOf(r.out),
     exc |-> r.exc]
\* IMDbColorInfoParser.search(queries), IMDbGenresParser.search(queries)
ParserSearch(name, z, queries) ==
    SearchResult(name, RunSearch(ParserOf(name), z, Some(queries)))
\* the class attribute default of a parser: None (basic lists), [] (genres)
DefaultOf(name) ==
    IF name = "colorinfo" THEN None ELSE <<>>
\* a getter that finds no slot set
SlotAlwaysUnset(slot) ==
    TRUE
\* "not hasattr(self, data_val)"
SlotUnset(slot) ==
    slot = None
\* a slot the populator leaves alone when the lookup has no record
SlotKept(slot, ret, title, default) ==
    IF title \in DOMAIN ret THEN Some(ret[title]) ELSE slot
\* the body of the loop of populate: setattr(title, prop, ...)
SlotSet(slot, ret, title, default) ==
    IF title \in DOMAIN ret THEN Some(ret[title]) ELSE Some(default)

\* ------------------------------------------------ the search index

\* the defaults of search() and _search_index()
Size ==
    5
DeltaYear ==
    8
\* "if i % 100 == 0: timer.step()"
StepEvery ==
    100

\* unicode.lower() of a code point of the ASCII range
LowerChar(c) ==
    IF c >= 65 /\ c <= 90 THEN c + 32 ELSE c
\* a character _STRIPRE leaves: [a-z0-9 ]
KeptChar(c) ==
    c = SPACE \/ (c >= 48 /\ c <= 57) \/ (c >= 97 /\ c <= 122)
\* _clean_word: lower-case, drop every other character
RECURSIVE CleanWord(_)
CleanWord(word) ==
    IF word = <<>> THEN <<>>
    ELSE (IF KeptChar(LowerChar(word[1])) THEN <<LowerChar(word[1])>>
          ELSE <<>>)
         \o CleanWord(Tail(word))
\* _STEMS: 'the', 'and', 'der', 'for'
Stems ==
    {<<116, 104, 101>>, <<97, 110, 100>>, <<100, 101, 114>>,
     <<102, 111, 114>>}
\* a word _clean_words leaves out: short, common, or a small number
Stripped(word) ==
    IF Len(word) <= 2 \/ word \in Stems THEN TRUE
    ELSE IF Len(word) <= 4 /\ IsDec(word) THEN ParseDec(word) < 2100
    ELSE FALSE
\* the words of a list that are kept
RECURSIVE Limited(_)
Limited(normed) ==
    IF normed = <<>> THEN <<>>
    ELSE (IF Stripped(normed[1]) THEN <<>> ELSE <<normed[1]>>)
         \o Limited(Tail(normed))
\* list(_clean_word(word) for word in words)
CleanAll(words) ==
    [i \in 1..Len(words) |-> CleanWord(words[i])]
\* _clean_words from "if not strip_stems or len(words) == 1", normed being
\* the cleaned words that are not empty
CleanLimited(words, normed, strip_stems) ==
    IF ~strip_stems \/ Len(words) = 1 THEN normed
    ELSE IF Limited(normed) # <<>> THEN Limited(normed)
    ELSE normed
\* _clean_words(words, strip_stems)
CleanWords(words, strip_stems) ==
    CleanLimited(words, NonEmpty(CleanAll(words)), strip_stems)
\* _subwords for one word: its substrings of length size, or the word
SubwordsOf(word, size) ==
    IF Len(word) - size + 1 <= 0 THEN <<Take(word, size)>>
    ELSE [i \in 1..(Len(word) - size + 1) |-> SubSeq(word, i, i + size - 1)]
\* _subwords(words, size)
RECURSIVE Subwords(_, _)
Subwords(words, size) ==
    IF words = <<>> THEN <<>>
    ELSE SubwordsOf(words[1], size) \o Subwords(Tail(words), size)
\* wordlist of _search_index
WordList(words, size, strip_stems) ==
    Subwords(CleanWords(words, strip_stems), size)

\* str.replace(' ', ''), as ''.join(s.split(' '))
RECURSIVE Unspaced(_)
Unspaced(s) ==
    IF s = <<>> THEN <<>>
    ELSE (IF s[1] = SPACE THEN <<>> ELSE <<s[1]>>) \o Unspaced(Tail(s))
\* the line create_index writes for an entry: the searchable name, the
\* year, the title, the real title of an aka entry and the number of
\* ratings, tab-separated
IdxLine(e) ==
    Unspaced(CleanWord(e.name)) \o <<TAB>>
    \o (IF e.year = None THEN <<>> ELSE FormatDec(e.year[1])) \o <<TAB>>
    \o Utf8Encode(e.title) \o <<TAB>>
    \o Utf8Encode(e.akafor) \o <<TAB>>
    \o FormatDec(e.nratings) \o <<NL>>

\* a year argument that is given: "if year"
YearGiven(year) ==
    IF year = None THEN FALSE ELSE year[1] # 0
\* the years from year-deltayear to year+deltayear, both included
ValidYearsClosed(year, deltayear) ==
    IF YearGiven(year)
    THEN (year[1] - deltayear)..(year[1] + deltayear)
    ELSE {}
\* validyears: range(year-deltayear, year+deltayear), or ()
ValidYears(year, deltayear) ==
    IF YearGiven(year)
    THEN (year[1] - deltayear)..(year[1] + deltayear - 1)
    ELSE {}
\* the quick check of _search_index: some word of wordlist is in the line
Matches(wordlist, line) ==
    \E i \in 1..Len(wordlist) : HasSub(line, wordlist[i])
\* line.decode('utf-8').split('\t')[1:]
FieldsOf(line) ==
    Tail(SplitOn(Utf8Decode(line), TAB, <<>>))
\* what _search_index does with a line: skip it, yield it or raise
Cand(kind, f, exc) ==
    [kind |-> kind, ryear |-> f[1], title |-> f[2], akafor |-> f[3],
     nratings |-> f[4], exc |-> exc]
NoFields ==
    <<<<>>, <<>>, <<>>, <<>>>>
\* _search_index from the unpacking of the fields f of a matching line
CandidateOf(f, validyears) ==
    IF Len(f) # 4 THEN Cand("raise", NoFields, "ValueError")
    ELSE IF validyears = {} \/ f[1] = <<>> THEN Cand("yield", f, "")
    ELSE IF ~IsDec(f[1]) THEN Cand("raise", f, "ValueError")
    ELSE IF ParseDec(f[1]) \notin validyears THEN Cand("skip", f, "")
    ELSE Cand("yield", f, "")
\* the body of the line loop of _search_index
Candidate(line, wordlist, validyears) ==
    IF ~Matches(wordlist, line) THEN Cand("skip", NoFields, "")
    ELSE CandidateOf(FieldsOf(line), validyears)

\* str.lower() of a text of the ASCII range
LowerAll(s) ==
    [i \in 1..Len(s) |-> LowerChar(s[i])]
\* query.lower() for the query that is its words joined by single spaces
RECURSIVE LcQuery(_)
LcQuery(words) ==
    IF Len(words) = 1 THEN LowerAll(words[1])
    ELSE LowerAll(words[1]) \o <<SPACE>> \o LcQuery(Tail(words))
\* TITLERE.match(title).group('name') for a title that ends in ' (dddd)',
\* the year suffix that every title of the movies list carries
TitleName(title) ==
    SubSeq(title, 1, Len(title) - 7)

\* difflib.SequenceMatcher without junk: the blocks a and b share, as
\* (start in a, start in b, length)
Blocks(a, b) ==
    {t \in (1..Len(a)) \X (1..Len(b)) \X (1..Len(b)) :
        /\ t[1] + t[3] - 1 <= Len(a)
        /\ t[2] + t[3] - 1 <= Len(b)
        /\ SubSeq(a, t[1], t[1] + t[3] - 1) = SubSeq(b, t[2], t[2] + t[3] - 1)}
\* find_longest_match: the longest block, of these the one that starts
\* earliest in a, of these the one that starts earliest in b
Longest(blocks) ==
    CHOOSE t \in blocks :
        \A u \in blocks :
            \/ u[3] < t[3]
            \/ u[3] = t[3] /\ u[1] > t[1]
            \/ u[3] = t[3] /\ u[1] = t[1] /\ u[2] >= t[2]
\* get_matching_blocks: the longest block, then the same to its left and to
\* its right; MatchedChars is the total length of the blocks
RECURSIVE MatchedChars(_, _)
MatchedAround(a, b, t) ==
    t[3] + MatchedChars(SubSeq(a, 1, t[1] - 1), SubSeq(b, 1, t[2] - 1))
         + MatchedChars(SubSeq(a, t[1] + t[3], Len(a)),
                        SubSeq(b, t[2] + t[3], Len(b)))
MatchedBlocks(a, b, blocks) ==
    IF blocks = {} THEN 0 ELSE MatchedAround(a, b, Longest(blocks))
MatchedChars(a, b) ==
    MatchedBlocks(a, b, Blocks(a, b))
\* quick_ratio counts the characters the two texts share as multisets
RECURSIVE CommonChars(_, _, _)
CommonChars(chars, a, b) ==
    IF chars = {} THEN 0
    ELSE LET c == CHOOSE x \in chars : TRUE
             na == Cardinality({i \in 1..Len(a) : a[i] = c})
             nb == Cardinality({i \in 1..Len(b) : b[i] = c})
         IN  (IF na < nb THEN na ELSE nb) + CommonChars(chars \ {c}, a, b)
\* a ratio 2.0*matches/length above or at the cutoff 0.6
AtCutoff(matches, length) ==
    10 * matches >= 3 * length
\* "> mycutoff" for the ratio 2.0*matches/length and the cutoff 0.6
AboveCutoff(matches, length) ==
    10 * matches > 3 * length
\* the three tests of search() for the matcher of b and the text a:
\* real_quick_ratio(), quick_ratio() and ratio() above the cutoff
Passes(a, b) ==
    /\ AboveCutoff(IF Len(a) < Len(b) THEN Len(a) ELSE Len(b), Len(a) + Len(b))
    /\ AboveCutoff(CommonChars({b[i] : i \in 1..Len(b)}, a, b), Len(a) + Len(b))
    /\ AboveCutoff(MatchedChars(a, b), Len(a) + Len(b))
\* "if score > 0" in search() without a year: the lower-cased query is
\* matched against the lower-cased title and its lower-cased name
Similar(lcquery, title) ==
    \/ Passes(LowerAll(title), lcquery)
    \/ Passes(LowerAll(TitleName(title)), lcquery)

\* ------------------------------------------------ the WSGI service

\* CACHESIZE of wsgi.py, and the entries expire_cache lets go below it
CACHESIZE ==
    50
ExpireBelow ==
    5
\* cachekey = (query.lower(), year)
CacheKey(query, year) ==
    <<LowerAll(query), year>>
\* a dict without the key item: del searchcache[item]
DictWithout(dict, item) ==
    [k \in DOMAIN dict \ {item} |-> dict[k]]
\* a dict with the key item set: searchcache[cachekey] = obj
DictWith(dict, item, obj) ==
    [k \in DOMAIN dict \cup {item} |-> IF k = item THEN obj ELSE dict[k]]
\* item in list
InList(list, item) ==
    \E i \in 1..Len(list) : list[i] = item
\* a remove() that leaves the list as it is
ListKept(list, item) ==
    list
\* list.remove(item): the list without the first occurrence of the item
RECURSIVE ListRemove(_, _)
ListRemove(list, item) ==
    IF list = <<>> THEN <<>>
    ELSE IF list[1] = item THEN Tail(list)
    ELSE <<list[1]>> \o ListRemove(Tail(list), item)
\* the two globals of the cache, the keys the last call let go and the
\* exception it raised
Cached(cache, mru, evicted, exc) ==
    [cache |-> cache, mru |-> mru, evicted |-> evicted, exc |-> exc]
\* the while loop of expire_cache
RECURSIVE ExpireLoop(_, _, _)
ExpireLoop(cache, mru, evicted) ==
    IF Len(mru) > CACHESIZE - ExpireBelow
    THEN IF mru[1] \in DOMAIN cache
         THEN ExpireLoop(DictWithout(cache, mru[1]), Tail(mru),
                         Append(evicted, mru[1]))
         ELSE Cached(cache, Tail(mru), evicted, "KeyError")
    ELSE Cached(cache, mru, evicted, "")
\* expire_cache()
ExpireCache(cache, mru) ==
    IF Len(mru) > CACHESIZE THEN ExpireLoop(cache, mru, <<>>)
    ELSE Cached(cache, mru, <<>>, "")
\* the dict of an answer: an error, or the attributes of the first result
\* of the search for the query and the year
ErrorObj(error) ==
    [error |-> error, query |-> <<>>, year |-> None]
\* format_response(query, year) for the outcome of run_search: a result, no
\* result, or the TimeoutError of the alarm
FormatResponse(query, year, outcome) ==
    IF outcome = "timeout" THEN ErrorObj("Timeout with no results")
    ELSE IF outcome = "none" THEN ErrorObj("No results")
    ELSE [error |-> "", query |-> query, year |-> year]
\* what cached_search returns or raises, and the cache it leaves
Answer(c, exc, obj, cachekey, hit) ==
    [cache |-> c.cache, mru |-> c.mru, evicted |-> c.evicted, exc |-> exc,
     obj |-> obj, key |-> Some(cachekey), hit |-> hit,
     searched |-> ~hit]
\* cached_search from "obj = searchcache[cachekey]", c being the cache
\* after the test of the key
Fetch(c, cachekey, hit) ==
    IF c.exc # "" THEN Answer(c, c.exc, ErrorObj(""), cachekey, hit)
    ELSE IF cachekey \notin DOMAIN c.cache
    THEN Answer(c, "KeyError", ErrorObj(""), cachekey, hit)
    ELSE Answer([c EXCEPT !.mru = Append(@, cachekey)], "",
                c.cache[cachekey], cachekey, hit)
\* the branch "if cachekey in searchcache" of cached_search
CacheHit(cache, mru, cachekey) ==
    IF InList(mru, cachekey)
    THEN Cached(cache, ListRemove(mru, cachekey), <<>>, "")
    ELSE Cached(cache, mru, <<>>, "ValueError")
\* the else branch of cached_search, obj being the response, and any other
\* exception than TimeoutError leaving format_response
CacheMiss(cache, mru, cachekey, obj, outcome) ==
    IF outcome = "raise" THEN Cached(cache, mru, <<>>, "Exception")
    ELSE ExpireCache(DictWith(cache, cachekey, obj), mru)
\* cached_search(query, year)
CachedSearch(cache, mru, query, year, outcome) ==
    Fetch(IF CacheKey(query, year) \in DOMAIN cache
          THEN CacheHit(cache, mru, CacheKey(query, year))
          ELSE CacheMiss(cache, mru, CacheKey(query, year),
                         FormatResponse(query, year, outcome), outcome),
          CacheKey(query, year),
          CacheKey(query, year) \in DOMAIN cache)
\* the year of search(params): int(params['y'][0]), None when that raises
YearParam(y) ==
    IF y = None THEN None
    ELSE IF IsDec(y[1]) THEN Some(ParseDec(y[1]))
    ELSE None
\* search(params), q and y being the first values of the two parameters,
\* None for a parameter that is missing
WebSearch(cache, mru, q, y, outcome) ==
    IF q = None
    THEN [cache |-> cache, mru |-> mru, evicted |-> <<>>, exc |-> "",
          obj |-> ErrorObj("No query provided"), key |-> None,
          hit |-> FALSE, searched |-> FALSE]
    ELSE IF q[1] = <<>>
    THEN [cache |-> cache, mru |-> mru, evicted |-> <<>>, exc |-> "",
          obj |-> ErrorObj("No query provided"), key |-> None,
          hit |-> FALSE, searched |-> FALSE]
    ELSE CachedSearch(cache, mru, q[1], YearParam(y), outcome)
\* application(environ, start_response) from "status = '200 OK'", r being
\* what search(params) did, status the value assigned before and body the
\* response body: no response is started when an exception leaves search
Respond(r, ctype, status, body) ==
    [cache |-> r.cache, mru |-> r.mru,
     status |-> IF r.exc # "" THEN "" ELSE "200 OK",
     ctype |-> IF r.exc # "" THEN "" ELSE ctype,
     body |-> IF r.exc # "" THEN "" ELSE body,
     obj |-> r.obj, key |-> r.key, hit |-> r.hit, searched |-> r.searched,
     evicted |-> r.evicted, exc |-> r.exc]
\* a request that does not reach search(params)
NotSearched(cache, mru) ==
    [cache |-> cache, mru |-> mru, evicted |-> <<>>, exc |-> "",
     obj |-> ErrorObj(""), key |-> None, hit |-> FALSE, searched |-> FALSE]
\* application(environ, start_response)
Application(cache, mru, path, q, y, outcome) ==
    IF path = "/imdb"
    THEN Respond(WebSearch(cache, mru, q, y, outcome), "application/json",
                 "", "json")
    ELSE Respond(NotSearched(cache, mru), "text/html", "404 Not Found",
                 "404 Not Found")

\* Timer(timeout=timeout) created at the time start
NewTimer(start, timeout) ==
    [start |-> start, timeout |-> timeout]
\* a timer that never expires
NeverExpired(timer, t) ==
    FALSE
\* the test of Timer.step and Timer.check_expired at the time now
Expired(timer, now) ==
    IF timer.timeout = None THEN FALSE
    ELSE timer.timeout[1] # 0 /\ now - timer.start > timer.timeout[1]

\* a test that also lets a score equal to the stored one replace it
ImprovesOrTies(scores, stored, score) ==
    IF stored \notin DOMAIN scores THEN TRUE ELSE scores[stored] <= score
\* stored_title = akafor if akafor else title
StoredTitle(c) ==
    IF c.akafor # <<>> THEN c.akafor ELSE c.title
\* "if stored_title not in scores or scores[stored_title] < score"
Improves(scores, stored, score) ==
    IF stored \notin DOMAIN scores THEN TRUE ELSE scores[stored] < score
\* scores[stored_title] = score
PutScore(scores, stored, score) ==
    [t \in DOMAIN scores \cup {stored} |->
        IF t = stored THEN score ELSE scores[t]]
\* an aka map that keeps the name of every aka entry that scored
PutAkaAlways(akascores, c) ==
    IF c.akafor # <<>>
    THEN [t \in DOMAIN akascores \cup {StoredTitle(c)} |->
            IF t = StoredTitle(c) THEN c.title ELSE akascores[t]]
    ELSE akascores
\* akascores[stored_title] = title for an aka entry, del
\* akascores[stored_title] for a primary entry
PutAka(akascores, c) ==
    IF c.akafor # <<>>
    THEN [t \in DOMAIN akascores \cup {StoredTitle(c)} |->
            IF t = StoredTitle(c) THEN c.title ELSE akascores[t]]
    ELSE [t \in DOMAIN akascores \ {StoredTitle(c)} |-> akascores[t]]
\* search from "stored_title = ..." for a candidate c with the weighted
\* score: the scores and the aka names afterwards
Store(scores, akascores, c, score) ==
    IF Improves(scores, StoredTitle(c), score)
    THEN [scores |-> PutScore(scores, StoredTitle(c), score),
          akascores |-> PutAka(akascores, c)]
    ELSE [scores |-> scores, akascores |-> akascores]

\* sorted(iterable, key=scores.get, reverse=True) as insertions of a title
\* behind the titles that score at least as much
RECURSIVE InsertByScore(_, _, _)
InsertByScore(sorted, title, scores) ==
    IF sorted = <<>> THEN <<title>>
    ELSE IF scores[sorted[1]] < scores[title] THEN <<title>> \o sorted
    ELSE <<sorted[1]>> \o InsertByScore(Tail(sorted), title, scores)
RECURSIVE SortByScore(_, _)
SortByScore(order, scores) ==
    IF order = <<>> THEN <<>>
    ELSE InsertByScore(SortByScore(SubSeq(order, 1, Len(order) - 1), scores),
                       order[Len(order)], scores)
\* a result list that is not cut
NLargestAll(n, order, scores) ==
    SortByScore(order, scores)
\* heapq.nlargest(n, scores, scores.get), order being the order in which the
\* dict is iterated
NLargest(n, order, scores) ==
    Take(SortByScore(order, scores), n)
\* IMDb.search from "topscores = ...": the (IMDbTitle, score) pairs
TopResults(topscores, scores, akascores) ==
    [i \in 1..Len(topscores) |->
        [title |-> topscores[i],
         aka |-> IF topscores[i] \in DOMAIN akascores
                 THEN Some(akascores[topscores[i]]) ELSE None,
         score |-> scores[topscores[i]]]]

\* The state of one search(): the phase ("idle", "scanning", "done" or
\* "raised"), the arguments, the number of index lines read, what became of
\* the last line, the entries stored so far with their scores, the two dicts,
\* the timer, the times at which it was consulted and the exception raised.
NoSearch ==
    [phase |-> "idle", query |-> <<>>, year |-> None, wordlist |-> <<>>,
     validyears |-> {},
     i |-> 0, last |-> Cand("skip", NoFields, ""), seen |-> <<>>,
     scores |-> EmptyDict, akascores |-> EmptyDict,
     timer |-> NewTimer(0, None), consults |-> <<>>, exc |-> ""]
\* an exception leaves search()
Raised(s, exc) ==
    [s EXCEPT !.phase = "raised", !.exc = exc]
\* Timer.step() and Timer.check_expired() at the time t
Consult(s, t) ==
    IF Expired(s.timer, t)
    THEN [Raised(s, "TimerTimeout") EXCEPT !.consults = Append(@, t)]
    ELSE [s EXCEPT !.consults = Append(@, t)]
\* search from "nratings = int(nratings)", s being the state after
\* timer.check_expired()
Weighted(s, c, score, kept) ==
    IF s.phase = "raised" THEN s
    ELSE IF ~IsDec(c.nratings) THEN Raised(s, "ValueError")
    ELSE [s EXCEPT !.scores = kept.scores, !.akascores = kept.akascores,
                   !.seen = Append(@, [c |-> c, score |-> score])]
\* the body of the loop of search for a candidate c that got the weighted
\* score, check_expired() reading the time t
Scored(s, c, score, t) ==
    IF score <= 0 THEN s
    ELSE Weighted(Consult(s, t), c, score,
                  Store(s.scores, s.akascores, c, score))
\* _search_index after the yield of line i: timer.step() reading the time t
Resumed(s, t) ==
    IF s.phase = "raised" THEN s
    ELSE IF s.i % StepEvery = 0 THEN [Consult(s, t) EXCEPT !.i = @ + 1]
    ELSE [s EXCEPT !.i = @ + 1]
\* one turn of the two loops for the outcome c of line i: the next line is
\* skipped, raises, or is yielded, scored and stored
Turn(s, c, score, t1, t2) ==
    IF c.kind = "skip" THEN [s EXCEPT !.i = @ + 1, !.last = c]
    ELSE IF c.kind = "raise" THEN [Raised(s, c.exc) EXCEPT !.last = c]
    ELSE Resumed(Scored([s EXCEPT !.last = c], c, score, t1), t2)

\* ------------------------------------------------ the container machine
\* One sub-stream of one archive, used through one handle at a time: a writer
\* (mode 'w' or 'a') writes, bookmarks, flushes and closes; a reader (mode
\* 'r') reads, iterates lines and seeks.

\* longest sub-stream written, in bytes
MaxLen ==
    3
\* longest argument of one write() of the writer machine
MaxWrite ==
    2
\* largest preferred chunk size
MaxChunk ==
    2
\* largest size passed to read()
MaxRead ==
    2
\* calls a reader may make past the end of the stream
MaxPastEof ==
    1
\* longest record of the record machine, in bytes
MaxRec ==
    4
\* most records the record machine writes
MaxRecs ==
    4
\* the large chunk size of the record machine: the first one whose bookmark()
\* threshold lies below the chunk size
BigChunk ==
    8
\* most lines of a list, after its header
MaxLines ==
    3
\* most IMDbTitle objects
MaxObjs ==
    2
\* most lines of a search index: for the year filter, for the scores
MaxYearIdx ==
    2
MaxIdx ==
    3
\* the year asked for
QueryYear ==
    2000
\* the highest weighted score, the longest timeout, the latest time
MaxScore ==
    2
MaxTimeout ==
    1
MaxNow ==
    2
\* numret of IMDb.search
NumRet ==
    2

\* the byte strings of length lo..hi over an alphabet
Strings(alphabet, lo, hi) ==
    UNION {[1..n -> alphabet] : n \in lo..hi}
\* what one write() of the writer machine stores: two ordinary bytes
WriteData ==
    Strings({CHA, CHB}, 1, MaxWrite)
\* what the reader machine's sub-stream holds: lines of an ordinary byte
SeekData ==
    Strings({CHA, NL}, 1, MaxLen)
\* what the line machine's sub-stream holds: an ordinary byte and the two
\* line boundaries of str.splitlines
StreamData ==
    Strings({CHA, NL, CR}, 1, MaxLen)
\* the keys passed to bookmark()
Keys ==
    {<<>>, <<CHA>>, <<CHB>>}
\* the chunk sizes of the record machine
BmChunks ==
    {MaxChunk, BigChunk}
\* the record lengths of the record machine
RecLens ==
    {1, MaxRec}
\* the keys of the record machine, in increasing order '', 'a', 'aa', 'b',
\* 'ba'
BmKeys ==
    {<<>>, <<CHA>>, <<CHA, CHA>>, <<CHB>>, <<CHB, CHA>>}
\* the query sets of the plan machine: _run_search returns before planning
\* when there is no query, and a query is a title, never the empty string
PlanQueries ==
    SUBSET (BmKeys \ {<<>>}) \ {{}}
\* the lines of a list: a title and a value, or a title alone
ListLines ==
    {<<k, TAB, v, NL>> : k \in {CHA, CHB}, v \in {CHA, CHB}}
    \cup {<<k, NL>> : k \in {CHA, CHB}}
\* the lists: up to MaxLines lines, in any order
Lists ==
    UNION {[1..n -> ListLines] : n \in 0..MaxLines}
\* the lists of the archive machine: their lines, and the line of a TV
\* episode, which holds a '{'
ArchiveLists ==
    UNION {[1..n -> ListLines \cup {<<CHA, LBRACE, TAB, CHA, NL>>}] :
              n \in 0..MaxLines}
\* most lines of an aka-titles list, after its header
MaxAkaLines ==
    4
\* the lines of an aka-titles list: a title, the title of a TV episode, an
\* alternate name without and with a note, the alternate name of a TV
\* episode, and the blank line between two entries
AkaListLines ==
    {<<CHA, NL>>, <<CHB, LBRACE, NL>>,
     AkaPrefix \o <<CHB, 41, NL>>,
     AkaPrefix \o <<CHA, 41, TAB, CHB, NL>>,
     AkaPrefix \o <<CHA, LBRACE, 41, NL>>,
     <<NL>>}
\* the aka-titles lists: up to MaxAkaLines lines, in any order
AkaLists ==
    UNION {[1..n -> AkaListLines] : n \in 0..MaxAkaLines}
\* the titles asked for: the two of the lists and one no list has
QueryTitles ==
    {<<CHA>>, <<CHB>>, <<CHB, CHA>>}
\* 'c', the byte after 'b'
CHC ==
    CHB + 1
\* the titles of the indexed machine, in increasing order 'a', 'b', 'c', 'd'
IdxTitles ==
    <<<<CHA>>, <<CHB>>, <<CHC>>, <<CHC + 1>>>>
\* n lines of a list for one title
Repeated(title, n) ==
    [i \in 1..n |-> title \o <<TAB, CHA, NL>>]
\* the lists of the indexed machine: sorted by title as the list files are,
\* up to MaxLines lines for each of the four titles
IndexedLists ==
    {Repeated(IdxTitles[1], f[1]) \o Repeated(IdxTitles[2], f[2])
        \o Repeated(IdxTitles[3], f[3]) \o Repeated(IdxTitles[4], f[4]) :
            f \in [1..4 -> 0..MaxLines]}
\* the query sets of the indexed machine
IndexedQueries ==
    SUBSET {IdxTitles[i] : i \in 1..4} \ {{}}
\* the header of a parser's list file: the indicator line and the lines
\* _skip_to skips after it
Header(parser) ==
    <<Append(parser.indicator, NL)>> \o [i \in 1..parser.skips |-> <<NL>>]
\* the sub-stream of the container machine
Sub ==
    "s"

VARIABLES
    zip,      \* the archive: its entries, in the order written
    fh,       \* the ChunkedFile handle
    st,       \* "closed", "writing" or "reading"
    written,  \* every byte written to the sub-stream, in order
    base,     \* the offset the reader was last positioned at (0 after open)
    seeked,   \* the reader was positioned by seek() rather than by open
    hist,     \* the calls since then: "none", "read", "next" or "mixed"
    out,      \* the bytes returned since then, in the order returned
    lines,    \* the items next() returned since then
    ended,    \* the last call reported the end of the stream
    lastop,   \* the last call: its name, arguments and exception
    recs,     \* the records written: start offset, length, key bookmarked
    found,    \* what the last find_bookmark() was asked and returned
    src,      \* the lines of the list file to archive, after its header
    built,    \* the parser that archived the list, and the exception raised
    res,      \* what the last search was asked and yielded
    objs,     \* the IMDbTitle objects: their title and their data slots
    results,  \* what the last parser.search() returned, and the exception
    idx,      \* the lines of the search index file, None when there is none
    sc,       \* the search() in progress
    now,      \* the time
    ret,      \* what IMDb.search returned or raised
    ex,       \* the archive file exists
    dbdir,    \* the list file of each parser, None when it is missing
    reb,      \* what the last IMDb.rebuild_index did
    plan,     \* the ranges the last call of a seek planner emitted
    got,      \* what the last read of an attribute did and returned
    rt,       \* the last duration given to the running-time parser, and
              \* what it made of it
    web       \* the WSGI service: its cache, its MRU list, its last answer

\* the state of the IMDb front end
appvars ==
    <<objs, results, idx, sc, now, ret, ex, dbdir, reb, plan, got, rt, web>>

vars ==
    <<zip, fh, st, written, base, seeked, hist, out, lines, ended, lastop,
      recs, found, src, built, res, appvars>>

Op(name, key, n, exc) ==
    [op |-> name, key |-> key, n |-> n, exc |-> exc]

NoFound ==
    [key |-> <<>>, range |-> FALSE, pos |-> 0, end |-> None, exc |-> ""]

NotBuilt ==
    [parser |-> "none", exc |-> ""]
NoRes ==
    [queries |-> None, out |-> <<>>, exc |-> "", at |-> <<>>,
     skipped |-> <<>>]

\* the state of the container and of the parsers
libvars ==
    <<zip, fh, st, written, base, seeked, hist, out, lines, ended, lastop,
      recs, found, src, built, res>>

\* the attributes the populators fill, named as their parsers
Attrs ==
    {"colorinfo", "genres"}
\* lookups the reads of one attribute of one object may make
MaxLookups ==
    2
\* the value the lazy machine assigns to an attribute
Assigned ==
    <<CHB, CHB>>
\* the IMDbTitle objects
Objs ==
    1..MaxObjs
\* the title of an object: the two titles of the lists, and one no list has
TitleOf(o) ==
    IF o = 1 THEN <<CHA>> ELSE IF o = 2 THEN <<CHB>> ELSE <<CHB, CHA>>
\* IMDbTitle(title): no data slot is set
NewTitle(o) ==
    [title |-> TitleOf(o), slots |-> [a \in Attrs |-> None]]
\* no populator was called
NoResults ==
    [attr |-> "none", titles |-> {}, ret |-> EmptyDict, exc |-> ""]
\* the WSGI service after the import of the module: searchcache = {},
\* searchcache_mru = [], and no request answered
NoWeb ==
    [cache |-> EmptyDict, mru |-> <<>>, status |-> "", ctype |-> "",
     body |-> "", obj |-> ErrorObj(""), key |-> None, hit |-> FALSE,
     searched |-> FALSE, evicted |-> <<>>, exc |-> "", path |-> "",
     asked |-> 0]
\* no duration was parsed
NoTime ==
    [duration |-> <<>>, val |-> None, country |-> None, exc |-> "",
     called |-> FALSE]
\* no attribute was read: the lookups the reads of each attribute of each
\* object have made, and those of them that raised, are none
NoGot ==
    [obj |-> 0, attr |-> "none", looked |-> FALSE, val |-> None, exc |-> "",
     lookups |-> [o \in Objs |-> [a \in Attrs |-> 0]],
     failed |-> [o \in Objs |-> [a \in Attrs |-> 0]]]
\* no planner was called
NoPlan ==
    [called |-> FALSE, queries |-> {}, locs |-> <<>>, exc |-> ""]
\* what a planner called with the queries leaves in plan
Planned(queries, r) ==
    [called |-> TRUE, queries |-> queries, locs |-> r.locs, exc |-> r.exc]
\* a directory without list files, and no rebuild so far
NoDir ==
    [a \in Attrs |-> None]
NoRebuild ==
    [called |-> FALSE, zip |-> <<>>, ran |-> <<>>, exc |-> ""]
\* IMDb.search has not returned
NoRet ==
    [returned |-> FALSE, list |-> <<>>, exc |-> ""]
\* the front end before any call: the archive file is there, with no search
\* index and no list files, the time 0
AppInit ==
    /\ objs = [o \in Objs |-> NewTitle(o)]
    /\ results = NoResults
    /\ idx = None
    /\ sc = NoSearch
    /\ now = 0
    /\ ret = NoRet
    /\ ex = TRUE
    /\ dbdir = NoDir
    /\ reb = NoRebuild
    /\ plan = NoPlan
    /\ got = NoGot
    /\ rt = NoTime
    /\ web = NoWeb

\* an index entry: a title of no or some year, or an aka name of a title
Entry(name, year, akafor) ==
    [name |-> name, year |-> year, title |-> name, akafor |-> akafor,
     nratings |-> 0]
\* the year columns around the window of QueryYear, and the empty one
PoolYears ==
    {None} \cup {Some(QueryYear + d) :
                    d \in {-DeltaYear - 1, -DeltaYear, DeltaYear - 1,
                           DeltaYear, DeltaYear + 1}}
\* lines for the year filter: a title that holds the word asked for in every
\* year, and a title that does not
YearPool ==
    {IdxLine(Entry(<<CHA>>, y, <<>>)) : y \in PoolYears}
    \cup {IdxLine(Entry(<<CHB>>, Some(QueryYear), <<>>))}
\* lines for the scores: three titles, and two aka names of the first
ScorePool ==
    {IdxLine(Entry(<<t>>, Some(QueryYear), <<>>)) : t \in {CHA, CHB, 99}}
    \cup {IdxLine(Entry(<<n>>, Some(QueryYear), <<CHA>>)) : n \in {99, 100}}
\* the sequences of up to n lines of a pool
IdxFiles(pool, n) ==
    UNION {[1..k -> pool] : k \in 0..n}
\* windows of StepEvery lines in an index of the tick machine
MaxTick ==
    2
\* a long index: every line holds the word asked for, except each p-th line
TickFile(p) ==
    [j \in 1..(StepEvery * MaxTick + 1) |->
        IF j % p = 0 THEN IdxLine(Entry(<<CHB>>, None, <<>>))
        ELSE IdxLine(Entry(<<CHA>>, None, <<>>))]
\* the indexes of the tick machine: no line holds the word, every other line
\* does, the lines before a multiple of StepEvery do not, the lines after a
\* multiple of StepEvery do not
TickFiles ==
    {TickFile(p) : p \in {1, 2, StepEvery, StepEvery + 1}}
\* most lines of an index of the recall machine
MaxRecall ==
    2
\* an index entry of the movies list: the title is the name and the year
RecallEntry(name) ==
    [name |-> name, year |-> Some(QueryYear),
     title |-> name \o <<SPACE, 40>> \o FormatDec(QueryYear) \o <<41>>,
     akafor |-> <<>>, nratings |-> 0]
\* the names 'Abcde', 'ab-cde', 'abcde fgh', 'Abcde fghijk' and
\* 'fghijk abc def': the word alone, the word around a character that
\* cleaning drops, and the word in names of 9, 12 and 14 characters
RecallNames ==
    {<<65, 98, 99, 100, 101>>,
     <<97, 98, 45, 99, 100, 101>>,
     <<97, 98, 99, 100, 101, 32, 102, 103, 104>>,
     <<65, 98, 99, 100, 101, 32, 102, 103, 104, 105, 106, 107>>,
     <<102, 103, 104, 105, 106, 107, 32, 97, 98, 99, 32, 100, 101, 102>>}
RecallPool ==
    {IdxLine(RecallEntry(n)) : n \in RecallNames}
\* the queries 'abcde', 'ABCDE', 'aBcDe', 'fghijk' and 'FGHIJK'
RecallQueries ==
    {<<97, 98, 99, 100, 101>>, <<65, 66, 67, 68, 69>>,
     <<97, 66, 99, 68, 101>>, <<102, 103, 104, 105, 106, 107>>,
     <<70, 71, 72, 73, 74, 75>>}
\* the sign of the score search() gives a line of the index: positive for a
\* candidate that passes the cutoff (the weight factor is positive)
SimilarityScore(words, c) ==
    IF c.kind = "yield" /\ Similar(LcQuery(words), c.title) THEN 1 ELSE 0
\* the orders in which a dict with the keys S may be iterated
Orders(S) ==
    {o \in [1..Cardinality(S) -> S] : \A t \in S : \E k \in DOMAIN o : o[k] = t}

Init ==
    /\ src = <<>>
    /\ built = NotBuilt
    /\ res = NoRes
    /\ recs = <<>>
    /\ found = NoFound
    /\ zip = <<>>
    /\ fh = OpenHandle(<<>>, Sub, ModeR, 1, TRUE).h
    /\ st = "closed"
    /\ written = <<>>
    /\ base = 0
    /\ seeked = FALSE
    /\ hist = "none"
    /\ out = <<>>
    /\ lines = <<>>
    /\ ended = FALSE
    /\ lastop = Op("init", <<>>, 0, "")
    /\ AppInit

ReaderReset ==
    /\ base' = 0
    /\ seeked' = FALSE
    /\ hist' = "none"
    /\ out' = <<>>
    /\ lines' = <<>>
    /\ ended' = FALSE

\* ChunkedFile(filename, sub, mode='w', chunksize, autoflush)
OpenWrite(c, af) ==
    /\ st = "closed"
    /\ LET o == OpenHandle(zip, Sub, ModeW, c, af)
       IN  /\ fh' = o.h
           /\ zip' = o.zip
    /\ st' = "writing"
    /\ written' = <<>>
    /\ recs' = <<>>
    /\ found' = NoFound
    /\ ReaderReset
    /\ lastop' = Op("open", <<>>, c, "")
    /\ UNCHANGED <<src, built, res>>
    /\ UNCHANGED appvars

\* ChunkedFile(filename, sub, mode='a', chunksize, autoflush)
OpenAppend(c, af) ==
    /\ st = "closed"
    /\ LET o == OpenHandle(zip, Sub, ModeA, c, af)
       IN  /\ fh' = o.h
           /\ zip' = o.zip
    /\ st' = "writing"
    /\ ReaderReset
    /\ lastop' = Op("open", <<>>, c, "")
    /\ UNCHANGED <<written, recs, found, src, built, res>>
    /\ UNCHANGED appvars

\* write(data)
Write(data) ==
    /\ st = "writing"
    /\ Len(written) + Len(data) <= MaxLen
    /\ LET r == WriteOp(fh, zip, data)
       IN  /\ fh' = r.h
           /\ zip' = r.zip
           /\ lastop' = Op("write", <<>>, 0, r.exc)
    /\ written' = written \o data
    /\ UNCHANGED <<st, base, seeked, hist, out, lines, ended, recs, found, src, built, res>>
    /\ UNCHANGED appvars

\* flush()
FlushCall ==
    /\ st = "writing"
    /\ LET r == Flush(fh, zip)
       IN  /\ fh' = r.h
           /\ zip' = r.zip
           /\ lastop' = Op("flush", <<>>, 0, r.exc)
    /\ UNCHANGED <<st, written, base, seeked, hist, out, lines, ended,
                   recs, found, src, built, res>>
    /\ UNCHANGED appvars

\* bookmark(key)
Bookmark(key) ==
    /\ st = "writing"
    /\ LET r == BookmarkOp(fh, zip, key)
       IN  /\ fh' = r.h
           /\ zip' = r.zip
           /\ lastop' = Op("bookmark", key, 0, r.exc)
    /\ UNCHANGED <<st, written, base, seeked, hist, out, lines, ended,
                   recs, found, src, built, res>>
    /\ UNCHANGED appvars

\* close() of a writer or a reader
Close ==
    /\ st # "closed"
    /\ LET r == CloseOp(fh, zip)
       IN  /\ fh' = r.h
           /\ zip' = r.zip
           /\ lastop' = Op("close", <<>>, 0, r.exc)
    /\ st' = "closed"
    /\ UNCHANGED <<written, base, seeked, hist, out, lines, ended, recs, found, src, built, res>>
    /\ UNCHANGED appvars

\* ChunkedFile(filename, sub, mode='r', chunksize)
OpenRead(c) ==
    /\ st = "closed"
    /\ LET o == OpenHandle(zip, Sub, ModeR, c, TRUE)
       IN  fh' = o.h
    /\ st' = "reading"
    /\ ReaderReset
    /\ lastop' = Op("open", <<>>, c, "")
    /\ UNCHANGED <<zip, written, recs, found, src, built, res>>
    /\ UNCHANGED appvars

CanRead ==
    /\ st = "reading"
    /\ fh.chunkidx < Len(fh.chunks) + MaxPastEof

Mixed(kind) ==
    IF hist \in {"none", kind} THEN kind ELSE "mixed"

\* read(n)
Read(n) ==
    /\ CanRead
    /\ LET r == ReadOp(fh, zip, n)
       IN  /\ fh' = r.h
           /\ out' = out \o r.ret
           /\ ended' = (n < 0 \/ Len(r.ret) < n)
    /\ lastop' = Op("read", <<>>, n, "")
    /\ hist' = Mixed("read")
    /\ UNCHANGED <<zip, st, written, base, seeked, lines, recs, found, src, built, res>>
    /\ UNCHANGED appvars

\* next()
NextLine ==
    /\ CanRead
    /\ LET r == NextOp(fh, zip)
       IN  /\ fh' = r.h
           /\ out' = out \o r.ret
           /\ lines' = IF r.exc = "" THEN Append(lines, r.ret) ELSE lines
           /\ ended' = (r.exc # "")
           /\ lastop' = Op("next", <<>>, 0, r.exc)
    /\ hist' = Mixed("next")
    /\ UNCHANGED <<zip, st, written, base, seeked, recs, found, src, built, res>>
    /\ UNCHANGED appvars

\* seek(offset, whence)
Seek(offset, whence) ==
    /\ CanRead
    /\ LET r == SeekOp(fh, zip, offset, whence)
       IN  /\ fh' = r.h
           /\ lastop' = Op("seek", <<>>, whence, r.exc)
           /\ IF r.exc \in {"NotImplementedError", "ValueError"}
              THEN UNCHANGED <<base, seeked, hist, out, lines, ended>>
              ELSE /\ base' = (IF whence = 1 THEN fh.pos + offset ELSE offset)
                   /\ seeked' = TRUE
                   /\ hist' = "none"
                   /\ out' = <<>>
                   /\ lines' = <<>>
                   /\ ended' = FALSE
    /\ UNCHANGED <<zip, st, written, recs, found, src, built, res>>
    /\ UNCHANGED appvars

\* seek(offset, whence) on a handle opened for writing
SeekWriting(offset, whence) ==
    /\ st = "writing"
    /\ fh' = SeekOp(fh, zip, offset, whence).h
    /\ lastop' = Op("seek", <<>>, whence, SeekOp(fh, zip, offset, whence).exc)
    /\ UNCHANGED <<zip, st, written, base, seeked, hist, out, lines, ended,
                   recs, found, src, built, res>>
    /\ UNCHANGED appvars

\* ChunkedFile(filename, mode='r', chunksize) on a gzip file of the bytes data
OpenGzip(c, data) ==
    /\ st = "closed"
    /\ zip = <<>>
    /\ written = <<>>
    /\ fh' = GzipHandle(data, c)
    /\ st' = "reading"
    /\ written' = data
    /\ ReaderReset
    /\ lastop' = Op("open", <<>>, c, "")
    /\ UNCHANGED <<zip, recs, found, src, built, res>>
    /\ UNCHANGED appvars

\* write(record): one record of n bytes, the bytes of successive records
\* alternating
WriteRecord(n) ==
    /\ st = "writing"
    /\ Len(recs) < MaxRecs
    /\ LET data == [i \in 1..n |-> IF Len(recs) % 2 = 0 THEN CHA ELSE CHB]
           r == WriteOp(fh, zip, data)
       IN  /\ fh' = r.h
           /\ zip' = r.zip
           /\ lastop' = Op("write", <<>>, 0, r.exc)
           /\ written' = written \o data
    /\ recs' = Append(recs, [start |-> Len(written), len |-> n, key |-> None])
    /\ UNCHANGED <<st, base, seeked, hist, out, lines, ended, found, src, built, res>>
    /\ UNCHANGED appvars

\* bookmark(key) right after a record was written, with a key the assertion
\* of bookmark() lets through
BookmarkRecord(key) ==
    /\ st = "writing"
    /\ lastop.op = "write"
    /\ BookmarkAllowed(fh, key)
    /\ LET r == BookmarkOp(fh, zip, key)
       IN  /\ fh' = r.h
           /\ zip' = r.zip
           /\ lastop' = Op("bookmark", key, 0, r.exc)
    /\ recs' = [recs EXCEPT ![Len(recs)].key = Some(key)]
    /\ UNCHANGED <<st, written, base, seeked, hist, out, lines, ended, found, src, built, res>>
    /\ UNCHANGED appvars

\* find_bookmark(key, give_range) on a reader
Find(key, give_range) ==
    /\ st = "reading"
    /\ LET r == FindBookmark(fh, key, give_range)
       IN  /\ found' = [key |-> key, range |-> give_range, pos |-> r.pos,
                        end |-> r.end, exc |-> r.exc]
           /\ lastop' = Op("find", key, 0, r.exc)
    /\ UNCHANGED <<zip, fh, st, written, base, seeked, hist, out, lines, ended,
                   recs, src, built, res>>
    /\ UNCHANGED appvars

\* _find_seeks_bookmarks(fileobj, queries) on a reader of the sub-stream
PlanBookmarks(queries) ==
    /\ st = "reading"
    /\ plan' = Planned(queries, FindSeeksBookmarks(fh, queries))
    /\ lastop' = Op("plan", <<>>, Cardinality(queries), plan'.exc)
    /\ UNCHANGED <<zip, fh, st, written, base, seeked, hist, out, lines, ended,
                   recs, found, src, built, res>>
    /\ UNCHANGED <<objs, results, idx, sc, now, ret, ex, dbdir, reb, got,
                   rt, web>>

\* _find_seeks_index(dbfile, indexname, queries) on the archive the indexed
\* parser built
PlanIndex(queries) ==
    /\ st = "closed"
    /\ built # NotBuilt
    /\ ParserOf(built.parser).indexname # None
    /\ plan' = Planned(queries,
                       FindSeeksIndex(zip, ParserOf(built.parser).indexname[1],
                                      queries))
    /\ lastop' = Op("plan", <<>>, Cardinality(queries), plan'.exc)
    /\ UNCHANGED <<zip, fh, st, written, base, seeked, hist, out, lines, ended,
                   recs, found, src, built, res>>
    /\ UNCHANGED <<objs, results, idx, sc, now, ret, ex, dbdir, reb, got,
                   rt, web>>

\* what a search leaves in res
Searched(queries, r) ==
    [queries |-> queries, out |-> r.out, exc |-> r.exc, at |-> r.at,
     skipped |-> r.skipped]

\* rebuild_index() of a parser on an empty archive
Rebuild(name) ==
    /\ st = "closed"
    /\ built = NotBuilt
    /\ zip = <<>>
    /\ built' = [parser |-> name,
                 exc |-> RebuildIndex(ParserOf(name), zip,
                                      Header(ParserOf(name)) \o src).exc]
    /\ zip' = RebuildIndex(ParserOf(name), zip, Header(ParserOf(name)) \o src).zip
    /\ lastop' = Op("rebuild", <<>>, 0, built'.exc)
    /\ UNCHANGED <<fh, st, written, base, seeked, hist, out, lines, ended,
                   recs, found, src, res>>
    /\ UNCHANGED appvars

\* _run_search(queries): the point lookup of a set of titles
Lookup(queries) ==
    /\ st = "closed"
    /\ built # NotBuilt
    /\ res' = Searched(Some(queries),
                       RunSearch(ParserOf(built.parser), zip, Some(queries)))
    /\ lastop' = Op("search", <<>>, Cardinality(queries), res'.exc)
    /\ UNCHANGED <<zip, fh, st, written, base, seeked, hist, out, lines, ended,
                   recs, found, src, built>>
    /\ UNCHANGED appvars

\* _run_search(None): the full sequential scan
Scan ==
    /\ st = "closed"
    /\ built # NotBuilt
    /\ res' = Searched(None, RunSearch(ParserOf(built.parser), zip, None))
    /\ lastop' = Op("scan", <<>>, 0, res'.exc)
    /\ UNCHANGED <<zip, fh, st, written, base, seeked, hist, out, lines, ended,
                   recs, found, src, built>>
    /\ UNCHANGED appvars

\* IMDbAkaParser(dbfile=None, dbdir=dbdir).search(), iterated to its end, on
\* the aka-titles list of the lines src after its header
AkaScan ==
    /\ st = "closed"
    /\ lastop.op = "init"
    /\ res' = Searched(None, AkaSearch(Header(AkaParser) \o src))
    /\ lastop' = Op("akascan", <<>>, 0, res'.exc)
    /\ UNCHANGED <<zip, fh, st, written, base, seeked, hist, out, lines, ended,
                   recs, found, src, built>>
    /\ UNCHANGED appvars

\* what a populator leaves in results
Populated(name, titles, r) ==
    [attr |-> name, titles |-> titles, ret |-> r.ret, exc |-> r.exc]

\* IMDb.populate_<attr>(titles) for the attribute of a parser and a tuple of
\* IMDbTitle objects
Populate(name, titles) ==
    /\ st = "closed"
    /\ built # NotBuilt
    /\ results' = Populated(name, titles,
                            ParserSearch(name, zip,
                                         {objs[o].title : o \in titles}))
    /\ objs' = IF results'.exc # "" THEN objs
               ELSE [o \in Objs |->
                       IF o \in titles
                       THEN [objs[o] EXCEPT
                               !.slots[name] =
                                   SlotSet(@, results'.ret, objs[o].title,
                                           DefaultOf(name))]
                       ELSE objs[o]]
    /\ lastop' = Op("populate", <<>>, Cardinality(titles), results'.exc)
    /\ UNCHANGED <<zip, fh, st, written, base, seeked, hist, out, lines, ended,
                   recs, found, src, built, res>>
    /\ UNCHANGED <<idx, sc, now, ret, ex, dbdir, reb, plan, got,
                   rt, web>>

\* the getter of the property of attribute name on object o, after the test
\* of the slot: populate_<attr>((self,)) with outcome r when unset, then
\* getattr(self, data_val)
Getter(o, name, unset, r) ==
    /\ results' = IF unset THEN r ELSE results
    /\ objs' = IF unset /\ r.exc = ""
               THEN [objs EXCEPT ![o].slots[name] =
                        SlotSet(@, r.ret, objs[o].title, DefaultOf(name))]
               ELSE objs
    /\ got' = [obj |-> o, attr |-> name, looked |-> unset,
               val |-> IF unset /\ r.exc # "" THEN None ELSE objs'[o].slots[name],
               exc |-> IF unset THEN r.exc ELSE "",
               lookups |-> IF unset
                           THEN [got.lookups EXCEPT ![o][name] = @ + 1]
                           ELSE got.lookups,
               failed |-> IF unset /\ r.exc # ""
                          THEN [got.failed EXCEPT ![o][name] = @ + 1]
                          ELSE got.failed]
\* title.<attr>: the getter imdbtitle_property installs
ReadAttr(o, name) ==
    /\ st = "closed"
    /\ built # NotBuilt
    /\ got.lookups[o][name] < MaxLookups
    /\ Getter(o, name, SlotUnset(objs[o].slots[name]),
              Populated(name, {o}, ParserSearch(name, zip, {objs[o].title})))
    /\ lastop' = Op("read", <<>>, o, got'.exc)
    /\ UNCHANGED <<zip, fh, st, written, base, seeked, hist, out, lines, ended,
                   recs, found, src, built, res>>
    /\ UNCHANGED <<idx, sc, now, ret, ex, dbdir, reb, plan,
                   rt, web>>

\* title.<attr> = value: the setter imdbtitle_property installs
AssignAttr(o, name, value) ==
    /\ st = "closed"
    /\ built # NotBuilt
    /\ objs' = [objs EXCEPT ![o].slots[name] = Some(value)]
    /\ lastop' = Op("assign", <<>>, o, "")
    /\ UNCHANGED <<zip, fh, st, written, base, seeked, hist, out, lines, ended,
                   recs, found, src, built, res>>
    /\ UNCHANGED <<results, idx, sc, now, ret, ex, dbdir, reb, plan, got,
                   rt, web>>

\* IMDb.search(query, year, timeout) up to the first line of the index:
\* search() makes the timer and the generator of candidates
StartSearch(words, year, timeout) ==
    /\ sc.phase = "idle"
    /\ sc' = IF idx = None THEN Raised(NoSearch, "IOError")
             ELSE [NoSearch EXCEPT !.phase = "scanning", !.query = words,
                                   !.year = year,
                                   !.wordlist = WordList(words, Size, TRUE),
                                   !.validyears = ValidYears(year, DeltaYear),
                                   !.timer = NewTimer(now, timeout)]
    /\ ret' = IF idx = None THEN [NoRet EXCEPT !.exc = "IOError"] ELSE ret
    /\ lastop' = Op("search_start", <<>>, 0, sc'.exc)
    /\ UNCHANGED <<zip, fh, st, written, base, seeked, hist, out, lines, ended,
                   recs, found, src, built, res>>
    /\ UNCHANGED <<objs, results, idx, now, ex, dbdir, reb, plan, got,
                   rt, web>>

\* one line of the index: _search_index reads it and yields it or not,
\* search() scores a candidate (the weighted score is any of 0..MaxScore) and
\* stores it, check_expired() reads the time d1 later and step() d2 later
SearchLine(score, d1, d2) ==
    /\ sc.phase = "scanning"
    /\ sc.i < Len(idx[1])
    /\ now + d1 + d2 <= MaxNow
    /\ sc' = Turn(sc, Candidate(idx[1][sc.i + 1], sc.wordlist, sc.validyears),
                  score, now + d1, now + d1 + d2)
    /\ IF sc'.last.kind = "yield" THEN TRUE ELSE score = 0
    /\ now' = IF sc'.consults = sc.consults THEN now
              ELSE sc'.consults[Len(sc'.consults)]
    /\ IF Len(sc'.consults) = Len(sc.consults) + 2 THEN TRUE
       ELSE IF Len(sc'.consults) = Len(sc.consults) + 1 THEN d2 = 0
       ELSE d1 = 0 /\ d2 = 0
    /\ ret' = IF sc'.phase = "raised" THEN [NoRet EXCEPT !.exc = sc'.exc]
              ELSE ret
    /\ lastop' = Op("search_line", <<>>, sc.i, sc'.exc)
    /\ UNCHANGED <<zip, fh, st, written, base, seeked, hist, out, lines, ended,
                   recs, found, src, built, res>>
    /\ UNCHANGED <<objs, results, idx, ex, dbdir, reb, plan, got,
                   rt, web>>

\* the end of the index: search() returns the two dicts and IMDb.search the
\* top results, the dict of scores being iterated in some order
FinishSearch(order) ==
    /\ sc.phase = "scanning"
    /\ sc.i = Len(idx[1])
    /\ sc' = [sc EXCEPT !.phase = "done"]
    /\ ret' = [returned |-> TRUE,
               list |-> TopResults(NLargest(NumRet, order, sc.scores),
                                   sc.scores, sc.akascores),
               exc |-> ""]
    /\ lastop' = Op("search_end", <<>>, Len(ret'.list), "")
    /\ UNCHANGED <<zip, fh, st, written, base, seeked, hist, out, lines, ended,
                   recs, found, src, built, res>>
    /\ UNCHANGED <<objs, results, idx, now, ex, dbdir, reb, plan, got,
                   rt, web>>

\* IMDb.rebuild_index(dbdir): every parser archives its list, then
\* search.create_index writes the search index, whose lines are made
RebuildIndexes(made) ==
    /\ st = "closed"
    /\ reb' = RebuildAll(ex, zip, dbdir)
    /\ zip' = reb'.zip
    /\ ex' = (ex \/ reb'.ran # <<>>)
    /\ idx' = IF reb'.exc = "" THEN Some(made) ELSE idx
    /\ lastop' = Op("rebuild_index", <<>>, Len(reb'.ran), reb'.exc)
    /\ UNCHANGED <<fh, st, written, base, seeked, hist, out, lines, ended,
                   recs, found, src, built, res>>
    /\ UNCHANGED <<objs, results, sc, now, ret, dbdir, plan, got,
                   rt, web>>

\* the front end apart from the running-time parser and the WSGI service
frontvars ==
    <<objs, results, idx, sc, now, ret, ex, dbdir, reb, plan, got>>

\* IMDbRunningTimeParser._make_result((title, loc, duration)) for a record
\* of the running-times list
ParseTime(duration) ==
    /\ rt' = [duration |-> duration,
              val |-> RunningTime(duration).val,
              country |-> RunningTime(duration).country,
              exc |-> RunningTime(duration).exc,
              called |-> TRUE]
    /\ UNCHANGED <<libvars, frontvars, web>>

\* the service after a request for the path was answered as a, n queries
\* of the enumeration having been asked
Served(a, path, n) ==
    [f \in DOMAIN NoWeb |->
        IF f = "path" THEN path ELSE IF f = "asked" THEN n ELSE a[f]]
\* application(environ, start_response) for a request with PATH_INFO path
\* and the parameters q and y, run_search having the outcome if it runs;
\* n counts the queries of the enumeration
Request(path, q, y, outcome, n) ==
    /\ web' = Served(Application(web.cache, web.mru, path, q, y, outcome),
                     path, n)
    /\ UNCHANGED <<libvars, frontvars, rt>>

\* The writer machine: any sequence of writer calls, the sub-stream closed
\* and reopened for appending, and a reader that reads it sequentially.
Next ==
    \/ \E c \in 1..MaxChunk, af \in BOOLEAN : OpenWrite(c, af)
    \/ \E c \in 1..MaxChunk, af \in BOOLEAN : OpenAppend(c, af)
    \/ \E data \in WriteData : Write(data)
    \/ FlushCall
    \/ \E key \in Keys : Bookmark(key)
    \/ Close
    \/ OpenRead(MaxChunk)
    \/ \E n \in -1..MaxRead : Read(n)

Spec ==
    Init /\ [][Next]_vars

\* The reader machine: a sub-stream written in one piece, then read, iterated
\* and sought through a reader of any chunk size.
NextR ==
    \/ \E c \in 1..MaxChunk : OpenWrite(c, TRUE)
    \/ \E data \in SeekData : written = <<>> /\ Write(data)
    \/ Close
    \/ \E c \in 1..MaxChunk : OpenRead(c)
    \/ \E n \in -1..MaxRead : Read(n)
    \/ NextLine
    \/ \E offset \in 0..MaxLen, whence \in 0..2 : Seek(offset, whence)

SpecR ==
    Init /\ [][NextR]_vars

\* The chunk machine: a sub-stream written by any sequence of writer calls,
\* with or without autoflush, closed, reopened for appending with the same
\* chunk size, and read and sought through a reader of that chunk size.
NextSame ==
    \/ \E c \in 1..MaxChunk, af \in BOOLEAN : OpenWrite(c, af)
    \/ \E af \in BOOLEAN : written # <<>> /\ OpenAppend(fh.chunksize, af)
    \/ \E data \in WriteData : Write(data)
    \/ FlushCall
    \/ \E key \in Keys : Bookmark(key)
    \/ Close
    \/ written # <<>> /\ OpenRead(fh.chunksize)
    \/ \E n \in {-1, MaxRead} : Read(n)
    \/ \E offset \in 0..MaxLen, whence \in 0..1 : Seek(offset, whence)

SpecSame ==
    Init /\ [][NextSame]_vars

\* The gzip machine: the reader machine, and readers of a gzip file; a seek
\* may also be asked of a handle that is writing.
NextGz ==
    \/ \E c \in 1..MaxChunk : OpenWrite(c, TRUE)
    \/ \E data \in SeekData : written = <<>> /\ Write(data)
    \/ Close
    \/ \E c \in 1..MaxChunk : OpenRead(c)
    \/ \E c \in 1..MaxChunk, data \in SeekData : OpenGzip(c, data)
    \/ \E n \in -1..MaxRead : Read(n)
    \/ NextLine
    \/ \E offset \in 0..MaxLen, whence \in 0..2 : Seek(offset, whence)
    \/ \E offset \in 0..MaxLen, whence \in 0..2 : SeekWriting(offset, whence)

SpecGz ==
    Init /\ [][NextGz]_vars

\* The line machine: a sub-stream written in one piece, then iterated line by
\* line from a fresh reader.
NextL ==
    \/ \E c \in 1..MaxChunk : OpenWrite(c, TRUE)
    \/ \E data \in StreamData : written = <<>> /\ Write(data)
    \/ Close
    \/ OpenRead(MaxChunk)
    \/ NextLine

SpecL ==
    Init /\ [][NextL]_vars

\* The record machine: records written one by one, each followed by at most
\* one bookmark() call, the sub-stream closed, and find_bookmark() asked of a
\* freshly opened reader.
NextBm ==
    \/ \E c \in BmChunks, af \in BOOLEAN : OpenWrite(c, af)
    \/ \E n \in RecLens : WriteRecord(n)
    \/ \E key \in BmKeys : BookmarkRecord(key)
    \/ st = "writing" /\ Close
    \/ OpenRead(MaxChunk)
    \/ \E key \in BmKeys, give_range \in BOOLEAN :
           lastop.op = "open" /\ Find(key, give_range)

SpecBm ==
    Init /\ [][NextBm]_vars

\* The plan machine: records written with their bookmarks as in the record
\* machine, and the bookmark planner asked of a freshly opened reader for
\* any set of keys.
NextPlan ==
    \/ \E c \in BmChunks, af \in BOOLEAN : OpenWrite(c, af)
    \/ \E n \in RecLens : WriteRecord(n)
    \/ \E key \in BmKeys : BookmarkRecord(key)
    \/ st = "writing" /\ Close
    \/ OpenRead(MaxChunk)
    \/ \E queries \in PlanQueries :
           lastop.op = "open" /\ PlanBookmarks(queries)

SpecPlan ==
    Init /\ [][NextPlan]_vars

\* The lookup machine: a list is archived by the bookmarked parser or by the
\* indexed parser, then titles are looked up and the archive is scanned.
InitLookup ==
    /\ src \in Lists
    /\ built = NotBuilt
    /\ res = NoRes
    /\ recs = <<>>
    /\ found = NoFound
    /\ zip = <<>>
    /\ fh = OpenHandle(<<>>, Sub, ModeR, 1, TRUE).h
    /\ st = "closed"
    /\ written = <<>>
    /\ base = 0
    /\ seeked = FALSE
    /\ hist = "none"
    /\ out = <<>>
    /\ lines = <<>>
    /\ ended = FALSE
    /\ lastop = Op("init", <<>>, 0, "")
    /\ AppInit

\* The indexed machine: a sorted list is archived by the indexed parser,
\* then the index planner is asked for any set of titles.
InitLists(lists) ==
    /\ src \in lists
    /\ built = NotBuilt
    /\ res = NoRes
    /\ recs = <<>>
    /\ found = NoFound
    /\ zip = <<>>
    /\ fh = OpenHandle(<<>>, Sub, ModeR, 1, TRUE).h
    /\ st = "closed"
    /\ written = <<>>
    /\ base = 0
    /\ seeked = FALSE
    /\ hist = "none"
    /\ out = <<>>
    /\ lines = <<>>
    /\ ended = FALSE
    /\ lastop = Op("init", <<>>, 0, "")
    /\ AppInit

InitIndexed ==
    InitLists(IndexedLists)
NextIndexed ==
    \/ Rebuild("genres")
    \/ \E queries \in IndexedQueries : PlanIndex(queries)

SpecIndexed ==
    InitIndexed /\ [][NextIndexed]_vars

\* The point machine: a sorted list is archived by either parser, then any
\* set of its titles is looked up.
NextPoint ==
    \/ \E name \in Attrs : Rebuild(name)
    \/ \E queries \in IndexedQueries : Lookup(queries)

SpecPoint ==
    InitIndexed /\ [][NextPoint]_vars

\* The archive machine: a list with lines of TV episodes is archived by one
\* of the parsers.
InitArchive ==
    InitLists(ArchiveLists)
NextArchive ==
    \E name \in Attrs : Rebuild(name)

SpecArchive ==
    InitArchive /\ [][NextArchive]_vars

\* The aka machine: an aka-titles list of any lines is scanned by a new
\* aka parser.
InitAka ==
    InitLists(AkaLists)
NextAka ==
    AkaScan

SpecAka ==
    InitAka /\ [][NextAka]_vars

NextLookup ==
    \/ \E name \in {"colorinfo", "genres"} : Rebuild(name)
    \/ \E queries \in SUBSET QueryTitles : Lookup(queries)
    \/ Scan

SpecLookup ==
    InitLookup /\ [][NextLookup]_vars

\* The populator machine: a list is archived by one of the parsers, then the
\* attributes of title objects are populated in bulk.
NextPop ==
    \/ \E name \in Attrs : Rebuild(name)
    \/ \E name \in Attrs, titles \in SUBSET Objs : Populate(name, titles)

SpecPop ==
    InitLookup /\ [][NextPop]_vars

\* the search machines start from some search index, or from none
InitIdx(files) ==
    /\ src = <<>>
    /\ built = NotBuilt
    /\ res = NoRes
    /\ recs = <<>>
    /\ found = NoFound
    /\ zip = <<>>
    /\ fh = OpenHandle(<<>>, Sub, ModeR, 1, TRUE).h
    /\ st = "closed"
    /\ written = <<>>
    /\ base = 0
    /\ seeked = FALSE
    /\ hist = "none"
    /\ out = <<>>
    /\ lines = <<>>
    /\ ended = FALSE
    /\ lastop = Op("init", <<>>, 0, "")
    /\ objs = [o \in Objs |-> NewTitle(o)]
    /\ results = NoResults
    /\ idx \in files
    /\ sc = NoSearch
    /\ now = 0
    /\ ret = NoRet
    /\ ex = TRUE
    /\ dbdir = NoDir
    /\ reb = NoRebuild
    /\ plan = NoPlan
    /\ got = NoGot
    /\ rt = NoTime
    /\ web = NoWeb

\* a list file without records or with one line
ShortLists ==
    {l \in Lists : Len(l) <= 1}
\* the list file of a parser: missing, whole, without its header, or ending
\* within the header
ListFiles(parser) ==
    {None}
    \cup {Some(Header(parser) \o l) : l \in ShortLists}
    \cup {Some(l) : l \in ShortLists}
    \cup {Some(<<Append(parser.indicator, NL)>>)}

\* The rebuild machine: IMDb.rebuild_index, again and again, on a path
\* where there is no archive at first, from a directory of list files.
InitRebuild ==
    /\ src = <<>>
    /\ built = NotBuilt
    /\ res = NoRes
    /\ recs = <<>>
    /\ found = NoFound
    /\ zip = <<>>
    /\ fh = OpenHandle(<<>>, Sub, ModeR, 1, TRUE).h
    /\ st = "closed"
    /\ written = <<>>
    /\ base = 0
    /\ seeked = FALSE
    /\ hist = "none"
    /\ out = <<>>
    /\ lines = <<>>
    /\ ended = FALSE
    /\ lastop = Op("init", <<>>, 0, "")
    /\ objs = [o \in Objs |-> NewTitle(o)]
    /\ results = NoResults
    /\ idx = None
    /\ sc = NoSearch
    /\ now = 0
    /\ ret = NoRet
    /\ ex = FALSE
    /\ dbdir \in {d \in [Attrs -> UNION {ListFiles(ParserOf(a)) : a \in Attrs}] :
                     \A a \in Attrs : d[a] \in ListFiles(ParserOf(a))}
    /\ reb = NoRebuild
    /\ plan = NoPlan
    /\ got = NoGot
    /\ rt = NoTime
    /\ web = NoWeb
NextRebuild ==
    \E made \in IdxFiles(ScorePool, 1) : RebuildIndexes(made)

SpecRebuild ==
    InitRebuild /\ [][NextRebuild]_vars

\* The year machine: a search for one word, with or without a year, over an
\* index of titles of the years around the window.
InitYear ==
    InitIdx({Some(f) : f \in IdxFiles(YearPool, MaxYearIdx)})
NextYear ==
    \/ \E year \in {None, Some(0), Some(QueryYear)} :
           StartSearch(<<<<CHA>>>>, year, None)
    \/ \E score \in 0..1 : SearchLine(score, 0, 0)
    \/ \E order \in Orders(DOMAIN sc.scores) : FinishSearch(order)

SpecYear ==
    InitYear /\ [][NextYear]_vars

\* The search machine: a search with or without a timeout over an index of
\* titles and aka names, every candidate getting any score, the time
\* passing between the readings of the timer.
InitSearch ==
    InitIdx({None} \cup {Some(f) : f \in IdxFiles(ScorePool, MaxIdx)})
NextSearch ==
    \/ \E timeout \in {None} \cup {Some(t) : t \in 0..MaxTimeout} :
           StartSearch(<<<<CHA>>, <<CHB>>, <<99>>>>, None, timeout)
    \/ \E score \in 0..MaxScore, d1, d2 \in 0..MaxNow : SearchLine(score, d1, d2)
    \/ \E order \in Orders(DOMAIN sc.scores) : FinishSearch(order)

SpecSearch ==
    InitSearch /\ [][NextSearch]_vars

\* The tick machine: a search for one word over a long index, no candidate
\* scoring, the time passing at the calls of timer.step().
InitTick ==
    InitIdx({Some(f) : f \in TickFiles})
NextTick ==
    \/ \E timeout \in {None, Some(MaxTimeout)} :
           StartSearch(<<<<CHA>>>>, None, timeout)
    \/ \E d1 \in 0..MaxNow : SearchLine(0, d1, 0)
    \/ \E order \in Orders(DOMAIN sc.scores) : FinishSearch(order)

SpecTick ==
    InitTick /\ [][NextTick]_vars

\* The recall machine: a search for one word of five or six letters, without
\* a year or a timeout, over an index of titles that hold the word; the
\* score of a candidate is the one the sequence matchers give it.
InitRecall ==
    InitIdx({Some(f) : f \in IdxFiles(RecallPool, MaxRecall)})
ScoredLine ==
    \E score \in 0..1 :
        /\ SearchLine(score, 0, 0)
        /\ score = SimilarityScore(sc.query, sc'.last)
NextRecall ==
    \/ \E q \in RecallQueries : StartSearch(<<q>>, None, None)
    \/ ScoredLine
    \/ \E order \in Orders(DOMAIN sc.scores) : FinishSearch(order)

SpecRecall ==
    InitRecall /\ [][NextRecall]_vars

\* The service machine: requests for another path than /imdb, requests for
\* /imdb without a query or with the query 'a' or 'A', without a year or
\* with the year 'x', whose search ends in any way, and requests for the
\* queries 'B1', 'B2', ..., asked one after the other, the even ones with
\* the year 2000, whose search finds a result.
MaxAsked ==
    52
FreshQuery(n) ==
    <<66>> \o FormatDec(n)
FreshYear(n) ==
    IF n % 2 = 0 THEN Some(<<50, 48, 48, 48>>) ELSE None
HotQueries ==
    {None, Some(<<>>), Some(<<CHA>>), Some(<<65>>)}
WebYears ==
    {None, Some(<<120>>)}
Outcomes ==
    {"found", "timeout", "raise"}
InitWeb ==
    InitLists({<<>>})
NextWeb ==
    \/ \E path \in {"/imdb", "/"}, q \in HotQueries, y \in WebYears,
          outcome \in Outcomes :
           /\ path = "/" => (q = None /\ y = None /\ outcome = "found")
           /\ Request(path, q, y, outcome, web.asked)
    \/ /\ web.asked < MaxAsked
       /\ Request("/imdb", Some(FreshQuery(web.asked + 1)),
                  FreshYear(web.asked + 1), "found", web.asked + 1)

SpecWeb ==
    InitWeb /\ [][NextWeb]_vars

\* The duration machine: the running-time parser is given one duration
\* after another, each the second column of a line of the list: digits, a
\* letter, a colon, a space and a superscript two, in any order.
MaxDur ==
    3
Durations ==
    Strings({49, 50, COLON, CHA, SPACE, 178}, 1, MaxDur)
InitTime ==
    InitLists({<<>>})
NextTime ==
    \E duration \in Durations : ParseTime(duration)

SpecTime ==
    InitTime /\ [][NextTime]_vars

\* The lazy machine: a short list is archived by one of the parsers, then
\* the attributes of title objects are read, assigned and populated in bulk.
InitLazy ==
    InitLists(ShortLists)
NextLazy ==
    \/ \E name \in Attrs : Rebuild(name)
    \/ \E name \in Attrs : Populate(name, Objs)
    \/ \E o \in Objs, name \in Attrs : ReadAttr(o, name)
    \/ \E o \in Objs, name \in Attrs : AssignAttr(o, name, Assigned)

SpecLazy ==
    InitLazy /\ [][NextLazy]_vars

\* ----------------------------------------------------- container claims

\* the sub-stream as the archive stores it: its chunks in offset order
StoredChunks ==
    Chunks(zip, Sub)
ChunkLen(c) ==
    Len(ZipRead(zip, c.name))

\* C1 (container round-trip): once a reader that was opened on the closed
\* sub-stream has read it with read() calls from offset 0 to the end of the
\* stream, the bytes it obtained, in order, are exactly the bytes written.
C1_RoundTrip ==
    (st = "reading" /\ hist = "read" /\ ended) => out = written
\* a full sub-stream of several chunks, one of them bookmarked, was read back
\* to its end in more than one call
C1_Witness ==
    /\ st = "reading" /\ hist = "read" /\ ended
    /\ lastop.op = "read" /\ lastop.n > 0
    /\ Len(written) = MaxLen
    /\ Len(fh.chunks) >= 2
    /\ \E i \in 1..Len(fh.chunks) : fh.chunks[i].bookmark # None

\* C8 (chunk layout): in every state the chunks of the sub-stream, in offset
\* order, start at strictly increasing offsets, each exactly where the one
\* before it ends, and a non-empty sub-stream has exactly one chunk at 0.
C8_Layout ==
    LET cs == StoredChunks
    IN  /\ \A i \in 1..(Len(cs) - 1) :
              /\ cs[i].pos < cs[i + 1].pos
              /\ cs[i + 1].pos = cs[i].pos + ChunkLen(cs[i])
        /\ cs # <<>> =>
              /\ cs[1].pos = 0
              /\ Cardinality({i \in 1..Len(cs) : cs[i].pos = 0}) = 1
\* a handle reopened for appending, with a chunk size of 1, has just emitted
\* a chunk after a two-byte chunk of an earlier handle
C8_Witness ==
    /\ st = "writing" /\ fh.mode = ModeA /\ fh.chunksize = 1
    /\ lastop.op = "write" /\ fh.writebuf = <<>>
    /\ Len(StoredChunks) >= 2
    /\ ChunkLen(StoredChunks[1]) = 2

C10_RejectSmallerKey ==
    [][(/\ lastop'.op = "bookmark"
        /\ st = "writing"
        /\ fh.last_bookmark # None
        /\ StrLess(lastop'.key, fh.last_bookmark[1]))
       => (/\ lastop'.exc = "AssertionError"
           /\ fh' = fh
           /\ zip' = zip)]_vars
\* a smaller key was rejected while bytes were buffered
C10_Witness ==
    /\ lastop.op = "bookmark" /\ lastop.exc = "AssertionError"
    /\ fh.writebuf # <<>>
    /\ fh.last_bookmark = Some(<<CHB>>) /\ lastop.key = <<CHA>>

\* what a fresh reader of the closed sub-stream reads sequentially
FreshRead ==
    ReadOp(OpenHandle(zip, Sub, ModeR, MaxChunk, TRUE).h, zip, -1).ret
\* the n bytes from offset off of a byte string (all of them for n < 0)
Slice(s, off, n) ==
    IF n < 0 THEN Drop(s, off) ELSE Take(Drop(s, off), n)
\* seek(off) did what C4 says: it returned, tell() is off and every read(n)
\* next returns what a fresh sequential reader returns after discarding the
\* first off bytes
SeekHit ==
    /\ lastop.exc = ""
    /\ Tell(fh) = base
    /\ \A n \in -1..MaxRead :
           ReadOp(fh, zip, n).ret = Slice(FreshRead, base, n)
\* the state right after seek() to an offset inside [0, L]
AfterSeek ==
    /\ st = "reading" /\ lastop.op = "seek" /\ lastop.n \in {0, 1}
    /\ base >= 0 /\ base <= Len(written)

RECURSIVE CutAfterNL(_, _)
CutAfterNL(s, cur) ==
    IF s = <<>> THEN (IF cur = <<>> THEN <<>> ELSE <<cur>>)
    ELSE IF s[1] = NL THEN <<Append(cur, NL)>> \o CutAfterNL(Tail(s), <<>>)
    ELSE CutAfterNL(Tail(s), Append(cur, s[1]))

\* C5 (line iteration): iterating next() on a fresh reader until it stops
\* yields, in order, exactly the pieces of the sub-stream cut after every
\* '\n', with a final unterminated fragment once.
C5_LineIteration ==
    (st = "reading" /\ ~seeked /\ hist = "next" /\ ended)
    => lines = CutAfterNL(written, <<>>)

\* every record was bookmarked right after it was written, with strictly
\* increasing keys
Disciplined ==
    /\ \A i \in 1..Len(recs) : recs[i].key # None
    /\ \A i \in 1..(Len(recs) - 1) : StrLess(recs[i].key[1], recs[i + 1].key[1])
\* the state after find_bookmark() was asked of a reader of the closed stream
AfterFind ==
    st = "reading" /\ lastop.op = "find"
\* what a reader positioned at start reads up to end (to the end of the
\* stream when end is unbounded)
ReadRange(start, end) ==
    LET s == SeekOp(fh, zip, start, 0)
        n == IF end = None THEN -1 ELSE end[1] - start
    IN  [exc |-> s.exc, ret |-> ReadOp(s.h, zip, n).ret]
\* record i of the stream lies inside what ReadRange(start, end) returned
Encounters(i, start, end) ==
    LET r == ReadRange(start, end)
        off == recs[i].start - start
    IN  /\ r.exc = ""
        /\ off >= 0
        /\ off + recs[i].len <= Len(r.ret)
        /\ Slice(r.ret, off, recs[i].len)
           = Slice(written, recs[i].start, recs[i].len)

\* C3 (bookmarks bound seeks): when every record was bookmarked after it was
\* written, with strictly increasing keys, then after close find_bookmark(k_i)
\* returns an offset at most the start of record i; with give_range the end
\* is unbounded or beyond the start of record i, record i lies inside
\* [start, end), and a reader positioned at start and reading up to end
\* reads record i.
C3_BookmarksBoundSeeks ==
    (AfterFind /\ Disciplined) =>
        \A i \in 1..Len(recs) :
            recs[i].key = Some(found.key) =>
                /\ found.pos <= recs[i].start
                /\ found.range =>
                      /\ found.exc = ""
                      /\ found.end # None =>
                            /\ found.end[1] > recs[i].start
                            /\ recs[i].start + recs[i].len <= found.end[1]
                      /\ Encounters(i, found.pos, found.end)
\* the range of a record that spans chunks, with a bookmarked chunk before
\* it and a bounded end
C3_Witness ==
    /\ AfterFind /\ Disciplined /\ found.range
    /\ found.pos > 0 /\ found.end # None
    /\ \E i \in 1..Len(recs) :
           /\ recs[i].key = Some(found.key)
           /\ recs[i].len > ChunkLen(fh.chunks[1])

\* the chunks whose bookmark is below, or above, a key
ChunksBelow(key) ==
    {i \in 1..Len(fh.chunks) :
        fh.chunks[i].bookmark # None /\ StrLess(fh.chunks[i].bookmark[1], key)}
ChunksAbove(key) ==
    {i \in 1..Len(fh.chunks) :
        fh.chunks[i].bookmark # None /\ StrLess(key, fh.chunks[i].bookmark[1])}
\* the member of a set of chunks that is last, or first, in offset order
LastOf(S) ==
    CHOOSE i \in S : \A j \in S : fh.chunks[j].pos <= fh.chunks[i].pos
FirstOf(S) ==
    CHOOSE i \in S : \A j \in S : fh.chunks[i].pos <= fh.chunks[j].pos

\* C6 (find_bookmark start): find_bookmark(key) returns the start offset of
\* the last chunk, in offset order, whose bookmark is strictly below key, and
\* 0 when no chunk has such a bookmark.
C6_FindStart ==
    AfterFind =>
        found.pos = (IF ChunksBelow(found.key) = {} THEN 0
                     ELSE fh.chunks[LastOf(ChunksBelow(found.key))].pos)
\* two chunks have a bookmark below the key and the later one was returned
C6_Witness ==
    /\ AfterFind /\ ~found.range
    /\ Cardinality(ChunksBelow(found.key)) >= 2
    /\ found.pos > 0
    /\ ChunksAbove(found.key) # {}

\* C7 as stated (find_bookmark end): the second component is the start offset
\* of the first chunk whose bookmark is strictly above key, and unbounded
\* exactly when no chunk has a bookmark above key.
C7_EndIsFirstAbove ==
    (AfterFind /\ found.range) =>
        /\ found.end = None <=> ChunksAbove(found.key) = {}
        /\ found.end # None =>
              found.end[1] = fh.chunks[FirstOf(ChunksAbove(found.key))].pos
\* C7 amended: the second component is the start offset of the chunk that
\* follows the first chunk whose bookmark is strictly above key, and
\* unbounded exactly when no chunk has a bookmark above key or that chunk is
\* the last chunk of the sub-stream.
C7_EndFollowsFirstAbove ==
    (AfterFind /\ found.range) =>
        LET above == ChunksAbove(found.key)
        IN  /\ found.exc = ""
            /\ found.end = None <=>
                  (above = {} \/ FirstOf(above) = Len(fh.chunks))
            /\ found.end # None =>
                  found.end[1] = fh.chunks[FirstOf(above) + 1].pos
\* a bounded end beyond the first chunk above the key
C7_Witness ==
    /\ AfterFind /\ found.range /\ found.end # None
    /\ ChunksAbove(found.key) # {}
    /\ ChunksBelow(found.key) # {}
    /\ found.end[1] > fh.chunks[FirstOf(ChunksAbove(found.key))].pos

\* ------------------------------------------------------- lookup claims

\* how often a record occurs among the records yielded
Occurrences(rs, r) ==
    Cardinality({i \in 1..Len(rs) : rs[i] = r})
\* the records of a sequence whose title is queried
RECURSIVE FilterTitles(_, _)
FilterTitles(rs, queries) ==
    IF rs = <<>> THEN <<>>
    ELSE (IF rs[1].title \in queries THEN <<rs[1]>> ELSE <<>>)
         \o FilterTitles(Tail(rs), queries)
\* the same records with the same multiplicity
SameRecords(a, b) ==
    /\ Len(a) = Len(b)
    /\ \A i \in 1..Len(a) : Occurrences(a, a[i]) = Occurrences(b, a[i])
\* a point lookup was made of a list that rebuild_index archived
AfterLookup ==
    lastop.op = "search" /\ built.exc = ""

\* C2 (point-lookup correctness): for the bookmarked and the indexed parser
\* and every query set Q, the records the point lookup yields are exactly the
\* records a full sequential scan of the archived sub-stream yields, filtered
\* to the titles in Q, with the same multiplicity.
C2_LookupIsFilteredScan ==
    AfterLookup =>
        /\ res.exc = ""
        /\ SameRecords(res.out,
                       FilterTitles(RunSearch(ParserOf(built.parser), zip, None).out,
                                    res.queries[1]))

\* the bytes of a sub-stream of the archive, as a fresh reader reads them
StreamOf(z, name) ==
    ReadOp(OpenHandle(z, name, ModeR, DefaultChunk, TRUE).h, z, -1).ret
\* the records among the lines ls of a list sub-stream, each with the offset
\* loc at which its line starts
RECURSIVE Located(_, _)
Located(ls, loc) ==
    IF ls = <<>> THEN <<>>
    ELSE (IF ParseLine(Latin1Decode(RStrip(ls[1])), loc).kind = "rec"
          THEN <<ParseLine(Latin1Decode(RStrip(ls[1])), loc)>>
          ELSE <<>>)
         \o Located(Tail(ls), loc + Len(ls[1]))
\* the records of the list the parser archived, with their offsets
ArchivedRecords ==
    Located(SplitLines(StreamOf(zip, ParserOf(built.parser).listname)), 0)
\* the ranges the planner emitted for the last lookup
PlannedRanges ==
    SeekPlan(ParserOf(built.parser),
             OpenHandle(zip, ParserOf(built.parser).listname, ModeR,
                        DefaultChunk, TRUE).h,
             zip, res.queries)
\* the record at offset loc is one the reader has to collect from the range:
\* indexed at its start (index planner), located in [start, end) (bookmark
\* planner)
CollectedFrom(range, loc) ==
    IF ParserOf(built.parser).indexname # None THEN loc = range.start[1]
    ELSE /\ range.start[1] <= loc
         /\ (range.end = None \/ loc < range.end[1])
\* how many records of a queried title the reader has to collect from a range
MatchesIn(range) ==
    Cardinality({k \in 1..Len(ArchivedRecords) :
                    /\ ArchivedRecords[k].title \in res.queries[1]
                    /\ CollectedFrom(range, ArchivedRecords[k].loc)})

\* C11 (n_expected never undercounts): for every range either planner emits
\* for a lookup, nresults is at least the number of records of a queried
\* title the reader has to collect from the range.
C11_NeverUndercounts ==
    (AfterLookup /\ PlannedRanges.exc = "") =>
        \A i \in 1..Len(PlannedRanges.locs) :
            PlannedRanges.locs[i].n >= MatchesIn(PlannedRanges.locs[i])

\* ---------------------------------------------------- front-end claims

\* a populator returned
AfterPopulate ==
    lastop.op = "populate" /\ results.exc = ""
\* the records the lookup of a populator call returns: those _run_search
\* yields for the titles of the objects passed
LookedUp(name, z, titles) ==
    RunSearch(ParserOf(name), z, Some({TitleOf(o) : o \in titles})).out
\* the value search() makes of the records rs for a title that has some
ValueOf(name, rs, title) ==
    SearchResult(name, [out |-> rs, exc |-> ""]).ret[title]

\* C12 (populate sets every slot): a populate_<attr>(titles) step that
\* returns leaves the <attr> slot of every object in titles set, to the
\* parser's default when the lookup returned no record of its title and to
\* the looked-up value otherwise; the other slots of these objects and the
\* objects not passed are unchanged.
C12_PopulateSetsSlots ==
    [][(lastop'.op = "populate" /\ results'.exc = "") =>
        \A o \in Objs :
            IF o \in results'.titles
            THEN /\ objs'[o].title = objs[o].title
                 /\ objs'[o].slots[results'.attr] # None
                 /\ objs'[o].slots[results'.attr][1] =
                        (IF TitleOf(o) \in
                              TitlesOf(LookedUp(results'.attr, zip,
                                                results'.titles))
                         THEN ValueOf(results'.attr,
                                      LookedUp(results'.attr, zip,
                                               results'.titles),
                                      TitleOf(o))
                         ELSE DefaultOf(results'.attr))
                 /\ \A a \in Attrs \ {results'.attr} :
                        objs'[o].slots[a] = objs[o].slots[a]
            ELSE objs'[o] = objs[o]]_vars
\* a populator returned for two objects, one left with the default and one
\* with a looked-up value, while a slot of another attribute was set before
C12_Witness ==
    /\ AfterPopulate
    /\ \E o1, o2 \in results.titles :
           /\ objs[o1].slots[results.attr] = Some(DefaultOf(results.attr))
           /\ objs[o2].title \in DOMAIN results.ret
           /\ objs[o2].slots[results.attr]
                  = Some(results.ret[objs[o2].title])
    /\ \E o \in Objs, a \in Attrs \ {results.attr} :
           objs[o].slots[a] # None

\* how many records of the archived list have the title
RecordsOfTitle(title) ==
    Cardinality({k \in 1..Len(ArchivedRecords) :
                    ArchivedRecords[k].title = title})

\* C20 (last write wins): for color-info, when a queried title has several
\* records in the sub-stream, the value the lookup returns for it is the
\* value of the last of them in stream order, whatever other titles are
\* queried in the same call.
C20_LastWriteWins ==
    (AfterPopulate /\ results.attr = "colorinfo"
                   /\ built = [parser |-> "colorinfo", exc |-> ""]) =>
        \A o \in results.titles :
            RecordsOfTitle(TitleOf(o)) >= 2 =>
                /\ TitleOf(o) \in DOMAIN results.ret
                /\ results.ret[TitleOf(o)]
                       = ArchivedRecords[LastOfTitle(ArchivedRecords,
                                                     TitleOf(o))].val

\* ---------------------------------------------------------------------------
\* search claims
\* ---------------------------------------------------------------------------

\* IMDb.search returned its list
AfterSearch ==
    sc.phase = "done" /\ ret.returned
\* the titles of the returned pairs
Returned ==
    {ret.list[i].title : i \in 1..Len(ret.list)}
Least(a, b) ==
    IF a < b THEN a ELSE b

\* C13 (top results): IMDb.search returns at most numret (title, score)
\* pairs, as many as there are scored titles up to numret, with pairwise
\* distinct titles that carry their score of the scores map, ordered by
\* non-increasing score; every scored title that is not returned scores no
\* more than any returned one; with no scored candidate the search returns
\* the empty list and raises nothing.
C13_TopResults ==
    /\ sc.phase = "done" => (ret.returned /\ ret.exc = "")
    /\ AfterSearch =>
        /\ Len(ret.list) = Least(NumRet, Cardinality(DOMAIN sc.scores))
        /\ \A i, j \in 1..Len(ret.list) :
               i < j => /\ ret.list[i].title # ret.list[j].title
                        /\ ret.list[i].score >= ret.list[j].score
        /\ \A i \in 1..Len(ret.list) :
               /\ ret.list[i].title \in DOMAIN sc.scores
               /\ ret.list[i].score = sc.scores[ret.list[i].title]
        /\ \A t \in DOMAIN sc.scores \ Returned :
               \A i \in 1..Len(ret.list) : sc.scores[t] <= ret.list[i].score
        /\ (DOMAIN sc.scores = {} => ret.list = <<>>)
\* a search that scored more titles than numret returned the best of them
\* and left a lower one out
C13_Witness ==
    /\ AfterSearch
    /\ Cardinality(DOMAIN sc.scores) > NumRet
    /\ Len(ret.list) = NumRet
    /\ \E t \in DOMAIN sc.scores \ Returned :
           sc.scores[t] < ret.list[NumRet].score

\* the stored entries of the title t, by their place in the scan
EntriesOf(t) ==
    {k \in 1..Len(sc.seen) :
        (IF sc.seen[k].c.akafor # <<>> THEN sc.seen[k].c.akafor
         ELSE sc.seen[k].c.title) = t}
\* the entry that holds the best score of t: the first to reach it
HolderOf(t) ==
    CHOOSE k \in EntriesOf(t) :
        \A j \in EntriesOf(t) :
            \/ sc.seen[j].score < sc.seen[k].score
            \/ sc.seen[j].score = sc.seen[k].score /\ j >= k

\* C14 (aka override): after any sequence of scored index entries, every key
\* of the aka map is a key of the scores map, and for a stored title t, aka[t]
\* is defined exactly when the entry that holds the best score of t is an aka
\* line, and is then the aka name of that entry; so a later primary entry of
\* t with a strictly higher score removes aka[t].
C14_AkaOverride ==
    /\ DOMAIN sc.akascores \subseteq DOMAIN sc.scores
    /\ \A t \in DOMAIN sc.scores :
           /\ EntriesOf(t) # {}
           /\ sc.scores[t] = sc.seen[HolderOf(t)].score
           /\ t \in DOMAIN sc.akascores
                  <=> sc.seen[HolderOf(t)].c.akafor # <<>>
           /\ t \in DOMAIN sc.akascores
                  => sc.akascores[t] = sc.seen[HolderOf(t)].c.title
\* an aka line of a title was stored, then a primary line of the title
\* scored higher and removed the aka name, while another title keeps one
C14_Witness ==
    /\ Len(sc.seen) >= 2
    /\ \E j, k \in 1..Len(sc.seen) :
           /\ j < k
           /\ sc.seen[j].c.akafor = <<CHA>>
           /\ sc.seen[k].c.akafor = <<>>
           /\ sc.seen[k].c.title = <<CHA>>
           /\ sc.seen[j].score < sc.seen[k].score
    /\ <<CHA>> \in DOMAIN sc.scores
    /\ <<CHA>> \notin DOMAIN sc.akascores

\* the index line the scan has just read, and its year column
LastLine ==
    idx[1][sc.i]
YearColumn ==
    SplitOn(LastLine, TAB, <<>>)[2]
\* a search with a year has read a line and gone on
ScannedWithYear ==
    /\ sc.phase \in {"scanning", "done"}
    /\ sc.i >= 1
    /\ YearGiven(sc.year)

C16_YearWindowComplete ==
    (/\ ScannedWithYear
     /\ Matches(sc.wordlist, LastLine)
     /\ YearColumn # <<>>
     /\ ParseDec(YearColumn) >= sc.year[1] - DeltaYear
     /\ ParseDec(YearColumn) <= sc.year[1] + DeltaYear) =>
        sc.last.kind = "yield"

\* the timer of the search has a deadline, and it has passed at the time t
HasDeadline ==
    IF sc.timer.timeout = None THEN FALSE ELSE sc.timer.timeout[1] # 0
DeadlinePassed(t) ==
    HasDeadline /\ t > sc.timer.start + sc.timer.timeout[1]

\* C18 (timeout): a consultation of the timer (step() or check_expired())
\* after the deadline of the search is the last one: TimerTimeout is raised,
\* the scan stops and IMDb.search raises it to its caller and returns no
\* scores; a timer without a deadline never raises.
C18_Timeout ==
    /\ \A k \in 1..Len(sc.consults) :
           DeadlinePassed(sc.consults[k]) =>
               /\ k = Len(sc.consults)
               /\ sc.phase = "raised"
               /\ sc.exc = "TimerTimeout"
               /\ ret = [returned |-> FALSE, list |-> <<>>,
                         exc |-> "TimerTimeout"]
    /\ sc.exc = "TimerTimeout" => HasDeadline
\* the timer expired after two titles had been scored, and nothing of them
\* was returned
C18_Witness ==
    /\ sc.exc = "TimerTimeout"
    /\ Cardinality(DOMAIN sc.scores) = 2
    /\ Len(sc.consults) >= 3
    /\ ~ret.returned
    /\ ret.list = <<>>

\* ---------------------------------------------------------------------------
\* rebuild claims
\* ---------------------------------------------------------------------------

\* C17 (rebuild rejects an existing archive): IMDb.rebuild_index on a path
\* where the archive exists raises before any work is done: no parser is
\* run, no list file is read, and the archive and the search index are left
\* as they were.
C17_RebuildRejectsExisting ==
    [][ex => /\ reb'.called
             /\ reb'.exc = "Exception"
             /\ reb'.ran = <<>>
             /\ zip' = zip
             /\ idx' = idx
             /\ ex'
             /\ dbdir' = dbdir]_vars
\* a rebuild was rejected on an archive that an earlier rebuild had filled
\* from both lists and indexed
C17_Witness ==
    /\ ex
    /\ reb.exc = "Exception"
    /\ idx # None
    /\ StreamOf(zip, "colorinfo") # <<>>
    /\ StreamOf(zip, "genres") # <<>>

\* ingesting the list file of the parser fails at its header
HeaderFails(a) ==
    IF dbdir[a] = None THEN FALSE
    ELSE SkipTo(dbdir[a][1], ParserOf(a).indicator, ParserOf(a).skips).exc # ""

\* C19 (rebuild failure isolation): when the ingestion of one list fails
\* during a rebuild, the other lists are still ingested and the rebuild
\* completes: it raises nothing, every parser was run, the search index was
\* created, and the sub-stream of every list that does not fail holds the
\* data lines of its file.
C19_FailureIsolated ==
    (reb.called /\ reb.exc # "Exception") =>
        /\ reb.exc = ""
        /\ reb.ran = ParserNames
        /\ idx # None
        /\ \A a \in Attrs :
               (dbdir[a] # None /\ ~HeaderFails(a)) =>
                   StreamOf(zip, a)
                       = Concat(SkipTo(dbdir[a][1], ParserOf(a).indicator,
                                       ParserOf(a).skips).rest)

\* ---------------------------------------------------------------------------
\* seek and tell claims
\* ---------------------------------------------------------------------------

\* C22 (unsupported seeks): a seek with whence = 2 raises on every handle
\* and leaves the handle as it was; on a gzip-backed reader a seek to an
\* offset before the position raises and leaves the handle as it was, and a
\* seek to an offset from the position to the end of the stream returns with
\* tell() equal to the offset.
C22_UnsupportedSeeks ==
    [][lastop'.op = "seek" =>
          /\ lastop'.n = 2 => (lastop'.exc # "" /\ fh' = fh)
          /\ (fh.is_gzip /\ st = "reading" /\ lastop'.n \in {0, 1}) =>
                 /\ base' < Tell(fh) => (lastop'.exc # "" /\ fh' = fh)
                 /\ (base' >= Tell(fh) /\ base' <= Len(written)) =>
                        (lastop'.exc = "" /\ Tell(fh') = base')]_vars

\* C26 (tell accounting): on a reader, tell() is 0 after open and off after
\* a seek(off) that returned, and every read(n) and next() call adds to
\* tell() the number of bytes it returned, a final unterminated fragment
\* included; so tell() is off plus the bytes returned since.
C26_TellAccounting ==
    [][/\ (lastop'.op = "open" /\ st' = "reading") => Tell(fh') = 0
       /\ (lastop'.op = "seek" /\ st = "reading" /\ lastop'.exc = "") =>
              Tell(fh') = base'
       /\ (lastop'.op \in {"read", "next"} /\ st = "reading") =>
              /\ Len(out') >= Len(out)
              /\ Tell(fh') = Tell(fh) + (Len(out') - Len(out))]_vars
\* after a seek into the stream, read() and next() calls returned bytes up
\* to the end of the stream, the last of them an unterminated fragment
C26_Witness ==
    /\ st = "reading" /\ seeked /\ base > 0
    /\ hist = "mixed" /\ ended
    /\ lastop.op = "next"
    /\ Len(lines) >= 1
    /\ out # <<>> /\ out[Len(out)] # NL
    /\ Tell(fh) = base + Len(out)
    /\ Tell(fh) = Len(written)

\* ---------------------------------------------------------------------------
\* bookmark claims
\* ---------------------------------------------------------------------------

\* the buffer holds at least 7/8 of the chunk size
SevenEighths ==
    8 * Len(fh.writebuf) >= 7 * fh.chunksize
\* a bookmark() call has returned
Bookmarked ==
    lastop'.op = "bookmark" /\ lastop'.exc = ""
\* the chunks the archive had before the step, and has after it
ChunksBefore ==
    Chunks(zip, Sub)
ChunksAfter ==
    Chunks(zip', Sub)
\* the bytes of the chunks the step created, in order
NewBytes ==
    Concat([i \in 1..(Len(zip') - Len(zip)) |-> zip'[Len(zip) + i].data])

RECURSIVE Expected(_)
Expected(locs) ==
    IF locs = <<>> THEN 0 ELSE locs[1].n + Expected(Tail(locs))
\* range g holds the interval r that find_bookmark gave for a query
Holds(g, r) ==
    /\ g.start[1] <= r.pos
    /\ \/ g.end = None
       \/ r.end # None /\ r.end[1] <= g.end[1]
\* some range of the plan holds the interval r
Contained(locs, r) ==
    \E i \in 1..Len(locs) : Holds(locs[i], r)
\* a bookmark plan was made without an exception
BookmarkPlanned ==
    lastop.op = "plan" /\ plan.called /\ plan.exc = ""

\* C24: the ranges _find_seeks_bookmarks emits have strictly increasing
\* starts, each range starts strictly after the end of the one before it, so
\* that only the last range may have no end, the interval find_bookmark gives
\* for each query lies within one emitted range, and the expected counts add
\* up to the number of distinct queries.
C24_BookmarkPlan ==
    BookmarkPlanned =>
        /\ \A i \in 1..(Len(plan.locs) - 1) :
              /\ plan.locs[i].start[1] < plan.locs[i + 1].start[1]
              /\ plan.locs[i].end # None
              /\ plan.locs[i].end[1] < plan.locs[i + 1].start[1]
        /\ \A q \in plan.queries :
              Contained(plan.locs, FindBookmark(fh, Utf8Encode(q), TRUE))
        /\ Expected(plan.locs) = Cardinality(plan.queries)

\* a plan of two ranges, the first one merged from two queries with
\* different starts, the last one without an end
C24_Witness ==
    /\ BookmarkPlanned
    /\ Len(plan.locs) = 2
    /\ plan.locs[1].n = 2
    /\ plan.locs[2].end = None
    /\ \E q \in plan.queries :
          /\ Holds(plan.locs[1], FindBookmark(fh, Utf8Encode(q), TRUE))
          /\ FindBookmark(fh, Utf8Encode(q), TRUE).pos > plan.locs[1].start[1]

\* the lines of the index sub-stream the parser wrote
IndexLines ==
    SplitLines(StreamOf(zip, ParserOf(built.parser).indexname[1]))
\* the offsets the index lines ls list for the titles in queries, every
\* line counted once
RECURSIVE Referenced(_, _)
Referenced(ls, queries) ==
    IF ls = <<>> THEN <<>>
    ELSE (IF SplitOn(RStrip(ls[1]), TAB, <<>>)[1] \in queries
          THEN [i \in 1..Len(SplitOn(SplitOn(RStrip(ls[1]), TAB, <<>>)[2],
                                     SPACE, <<>>)) |->
                   ParseDec(SplitOn(SplitOn(RStrip(ls[1]), TAB, <<>>)[2],
                                    SPACE, <<>>)[i])]
          ELSE <<>>)
         \o Referenced(Tail(ls), queries)
\* how often offset loc occurs in the sequence offs
Listed(offs, loc) ==
    Cardinality({i \in 1..Len(offs) : offs[i] = loc})
\* an index plan was made without an exception
IndexPlanned ==
    lastop.op = "plan" /\ plan.called /\ plan.exc = "" /\ built # NotBuilt

\* C25: _find_seeks_index emits one range per distinct offset that the index
\* lines of the queried titles list, in ascending offset order, each without
\* an end and expecting as many records as the offset occurs in those lines,
\* every index line counted once.
C25_IndexPlan ==
    IndexPlanned =>
        /\ {plan.locs[i].start[1] : i \in 1..Len(plan.locs)}
              = {Referenced(IndexLines, plan.queries)[j] :
                    j \in 1..Len(Referenced(IndexLines, plan.queries))}
        /\ \A i \in 1..(Len(plan.locs) - 1) :
              plan.locs[i].start[1] < plan.locs[i + 1].start[1]
        /\ \A i \in 1..Len(plan.locs) :
              /\ plan.locs[i].end = None
              /\ plan.locs[i].n = Listed(Referenced(IndexLines, plan.queries),
                                              plan.locs[i].start[1])

\* ---------------------------------------------------------------------
\* timer claims
\* ---------------------------------------------------------------------

\* C27: the scan of the search index calls timer.step() at least once in
\* any StepEvery consecutive lines it reads, accepted or not: after i
\* lines the timer was consulted at least i / StepEvery times.
C27_StepEveryHundred ==
    sc.phase # "idle" => Len(sc.consults) >= sc.i \div StepEvery

\* ---------------------------------------------------------------------
\* rebuild claims
\* ---------------------------------------------------------------------

\* a line of the list that rebuild_index copies: not one skip_tvvg drops
Copied(line) ==
    ~HasSub(line, <<40, 86, 71, 41>>) /\ ~HasSub(line, <<LBRACE>>)
\* the title and the offset of every record the index sub-stream lists
RECURSIVE Recorded(_)
Recorded(ls) ==
    IF ls = <<>> THEN {}
    ELSE {<<SplitOn(RStrip(ls[1]), TAB, <<>>)[1], loc>> :
             loc \in {Referenced(<<ls[1]>>, {SplitOn(RStrip(ls[1]), TAB, <<>>)[1]})[j] :
                         j \in 1..Len(Referenced(<<ls[1]>>,
                                   {SplitOn(RStrip(ls[1]), TAB, <<>>)[1]}))}}
         \cup Recorded(Tail(ls))
\* the line a fresh reader of the archived list returns after seek(loc)
ReadBack(loc) ==
    NextOp(SeekOp(OpenHandle(zip, ParserOf(built.parser).listname, ModeR,
                             DefaultChunk, TRUE).h,
                  zip, loc, 0).h,
           zip).ret
\* a list was archived without an exception
Archived ==
    built # NotBuilt /\ built.exc = ""

ScoresOf(s, t) ==
    {s.seen[k].score : k \in {j \in 1..Len(s.seen) : StoredTitle(s.seen[j].c) = t}}
\* the scores map of the scan s holds, for the stored titles of the entries
\* that scored and for no other title, the greatest weighted score
BestKept(s) ==
    /\ DOMAIN s.scores = {StoredTitle(s.seen[k].c) : k \in 1..Len(s.seen)}
    /\ \A t \in DOMAIN s.scores :
          /\ s.scores[t] \in ScoresOf(s, t)
          /\ \A x \in ScoresOf(s, t) : x <= s.scores[t]
\* the step stored one more entry, whose score equals the best of its title
Tied ==
    /\ Len(sc'.seen) = Len(sc.seen) + 1
    /\ Len(sc.seen) > 0
    /\ StoredTitle(sc'.seen[Len(sc'.seen)].c) \in DOMAIN sc.scores
    /\ sc'.seen[Len(sc'.seen)].score
          = sc.scores[StoredTitle(sc'.seen[Len(sc'.seen)].c)]

\* C29: after every entry that search() has processed, scores[t] is the
\* greatest weighted score of the entries that scored and are stored under
\* t, a title is in the map only when there is such an entry, and an entry
\* whose score equals the best of its title replaces nothing.
C29_BestScore ==
    [][/\ BestKept(sc')
       /\ Tied => (sc'.scores = sc.scores /\ sc'.akascores = sc.akascores)]_vars

\* a title holds its best score from a primary line, and a later aka line of
\* the title with the same score, above that of a third entry, left it there
C29_Witness ==
    /\ Len(sc.seen) = 3
    /\ sc.seen[1].c.akafor = <<>>
    /\ sc.seen[2].c.akafor = StoredTitle(sc.seen[1].c)
    /\ sc.seen[2].score = sc.seen[1].score
    /\ StoredTitle(sc.seen[3].c) = StoredTitle(sc.seen[1].c)
    /\ sc.seen[3].score < sc.seen[1].score
    /\ StoredTitle(sc.seen[1].c) \notin DOMAIN sc.akascores

\* the title column of the line the scan reads next
NextTitle ==
    FieldsOf(idx[1][sc.i + 1])[2]
\* the query is one word of at least Size letters or digits, in any casing,
\* and the cleaned name of the title holds that word
HoldsWord(title, words) ==
    /\ Len(words) = 1
    /\ Len(CleanWord(words[1])) = Len(words[1])
    /\ Len(words[1]) >= Size
    /\ \E k \in 1..Len(SplitOn(CleanWord(TitleName(title)), SPACE, <<>>)) :
           SplitOn(CleanWord(TitleName(title)), SPACE, <<>>)[k]
               = CleanWord(words[1])
\* the name of the title is the word alone, whatever the casing
WordAlone(title, words) ==
    LowerAll(TitleName(title)) = LowerAll(words[1])
\* the word is at most three sevenths of the name, so that no ratio
\* 2*matches/(len(word)+len(name)) is above 0.6
WordLost(title, words) ==
    7 * Len(words[1]) <= 3 * Len(TitleName(title))
\* a step of the scan over one line of the index
LineRead ==
    /\ sc.phase = "scanning"
    /\ sc.i < Len(idx[1])
    /\ sc' # sc

\* C21 as the specification states it: once a search for one word of at
\* least Size characters, in any casing and without a year, has ended, every
\* title of the index whose cleaned name holds that word has a score above 0
C21_Recall ==
    sc.phase = "done" =>
        \A i \in 1..Len(idx[1]) :
            HoldsWord(FieldsOf(idx[1][i])[2], sc.query) =>
                /\ FieldsOf(idx[1][i])[2] \in DOMAIN sc.scores
                /\ sc.scores[FieldsOf(idx[1][i])[2]] > 0

\* C21 amended: in a search for one word of at least Size characters, in any
\* casing and without a year, a line whose cleaned name holds that word is
\* yielded as a candidate; the title gets a score above 0 when its name is
\* the word alone, and the candidate is dropped without a score when the
\* word is at most three sevenths of the name
C21_RecallAboveCutoff ==
    [][(LineRead /\ HoldsWord(NextTitle, sc.query)) =>
           /\ sc'.last.kind = "yield"
           /\ sc'.last.title = NextTitle
           /\ WordAlone(NextTitle, sc.query) =>
                  /\ NextTitle \in DOMAIN sc'.scores
                  /\ sc'.scores[NextTitle] > 0
           /\ WordLost(NextTitle, sc.query) =>
                  /\ sc'.seen = sc.seen
                  /\ sc'.scores = sc.scores]_vars

\* a search for 'ABCDE' over 'Abcde (2000)' and 'Abcde fghijk (2000)' has
\* ended: the first title has a score, the second has none
C21_Witness ==
    /\ sc.phase = "done"
    /\ Len(idx[1]) = 2
    /\ HoldsWord(FieldsOf(idx[1][1])[2], sc.query)
    /\ WordAlone(FieldsOf(idx[1][1])[2], sc.query)
    /\ sc.query[1] # TitleName(FieldsOf(idx[1][1])[2])
    /\ FieldsOf(idx[1][1])[2] \in DOMAIN sc.scores
    /\ HoldsWord(FieldsOf(idx[1][2])[2], sc.query)
    /\ WordLost(FieldsOf(idx[1][2])[2], sc.query)
    /\ FieldsOf(idx[1][2])[2] \notin DOMAIN sc.scores

\* ---------------------------------------------------------------------
\* attribute claims
\* ---------------------------------------------------------------------

\* the step is a read of an attribute whose slot was unset, was set
ReadUnset ==
    lastop'.op = "read" /\ objs[got'.obj].slots[got'.attr] = None
ReadSet ==
    lastop'.op = "read" /\ objs[got'.obj].slots[got'.attr] # None
\* the lookups that the reads of attribute a of object o have made and
\* that returned
LookupsReturned(g, o, a) ==
    g.lookups[o][a] - g.failed[o][a]

\* C30: the read of an attribute whose slot is unset calls the batch
\* populator once, with that single title, and returns the value the
\* populator stored; the read of a slot that is set makes no lookup, changes
\* nothing and returns the stored value; so the reads of one attribute of
\* one title make at most one lookup that returns.
C30_LazySlots ==
    [][/\ ReadUnset =>
             /\ got'.looked
             /\ got'.lookups[got'.obj][got'.attr]
                   = got.lookups[got'.obj][got'.attr] + 1
             /\ results'.attr = got'.attr
             /\ results'.titles = {got'.obj}
             /\ got'.exc = "" =>
                   /\ objs'[got'.obj].slots[got'.attr]
                         = Some(IF objs[got'.obj].title \in DOMAIN results'.ret
                                THEN results'.ret[objs[got'.obj].title]
                                ELSE DefaultOf(got'.attr))
                   /\ got'.val = objs'[got'.obj].slots[got'.attr]
       /\ ReadSet =>
             /\ ~got'.looked
             /\ got'.lookups = got.lookups
             /\ results' = results
             /\ objs' = objs
             /\ got'.val = objs[got'.obj].slots[got'.attr]
             /\ got'.exc = ""
       /\ \A o \in Objs, a \in Attrs : LookupsReturned(got', o, a) <= 1]_vars

\* an attribute was read twice: the first read looked the title up and got
\* the value of its record, the second made no lookup and got the same value
C30_Witness ==
    /\ lastop.op = "read"
    /\ ~got.looked
    /\ got.lookups[got.obj][got.attr] = 1
    /\ got.val = objs[got.obj].slots[got.attr]
    /\ got.val # None
    /\ got.val # Some(Assigned)
    /\ got.val # Some(DefaultOf(got.attr))
    /\ results.titles = {got.obj}

\* ---------------------------------------------------------------------
\* running-time claims
\* ---------------------------------------------------------------------

\* the part of a duration that follows the optional 'COUNTRY:' prefix
TimePart(duration) ==
    IF duration[1] >= 48 /\ duration[1] <= 57 THEN Strip(duration)
    ELSE IF Len(SplitOn(duration, COLON, <<>>)) < 2 THEN Strip(duration)
    ELSE Strip(Drop(duration, Len(SplitOn(duration, COLON, <<>>)[1]) + 1))
\* the leading decimal digits of a text
RECURSIVE DecimalHead(_)
DecimalHead(s) ==
    IF s = <<>> THEN <<>>
    ELSE IF s[1] >= 48 /\ s[1] <= 57 THEN <<s[1]>> \o DecimalHead(Tail(s))
    ELSE <<>>

\* C31: the running time parsed from a duration is the integer formed by
\* the leading decimal digits of the part after the optional country, None
\* when that part has no leading digit, and parsing raises nothing
C31_LeadingDigits ==
    rt.called =>
        /\ rt.exc = ""
        /\ rt.val = IF DecimalHead(TimePart(rt.duration)) = <<>> THEN None
                    ELSE Some(ParseDec(DecimalHead(TimePart(rt.duration))))

\* ---------------------------------------------------------------------
\* service claims
\* ---------------------------------------------------------------------

\* C32: the cache of the service holds at most CACHESIZE results
C32_CacheBound ==
    Cardinality(DOMAIN web.cache) <= CACHESIZE

\* C33: a request whose path is not /imdb is answered with the status
\* '404 Not Found' and the 404 body, a request for /imdb with '200 OK'
C33_NotFound ==
    /\ (web.path # "" /\ web.path # "/imdb") =>
           (web.status = "404 Not Found" /\ web.body = "404 Not Found")
    /\ (web.status = "200 OK") => web.path = "/imdb"

\* the MRU list holds the keys of the cache, each once
MruIsCache(w) ==
    /\ Len(w.mru) = Cardinality(DOMAIN w.cache)
    /\ {w.mru[i] : i \in 1..Len(w.mru)} = DOMAIN w.cache
\* a is the list b without its first n items
IsSuffix(a, b, n) ==
    /\ n <= Len(b)
    /\ a = SubSeq(b, n + 1, Len(b))
\* the step is a call of cached_search that returned
CacheCall ==
    /\ web'.key # None
    /\ web'.exc = ""
\* the key w.key is not in the list
NotIn(list, key) ==
    \A i \in 1..Len(list) : Some(list[i]) # key

\* C39: after every call of cached_search the MRU list holds exactly the
\* keys of the cache, each once, in the order of their last access, the key
\* just asked for last; a hit returns the stored result without a search;
\* the keys let go are the least recently used ones, never the one asked for
C39_MruConsistent ==
    [][/\ MruIsCache(web')
       /\ CacheCall =>
              /\ web'.mru[Len(web'.mru)] = web'.key[1]
              /\ IsSuffix(SubSeq(web'.mru, 1, Len(web'.mru) - 1),
                          SelectSeq(web.mru,
                                    LAMBDA k : Some(k) # web'.key),
                          Len(web'.evicted))
              /\ web'.evicted
                     = SubSeq(web.mru, 1, Len(web'.evicted))
              /\ NotIn(web'.evicted, web'.key)
              /\ web'.key[1] \in DOMAIN web'.cache
              /\ web'.obj = web'.cache[web'.key[1]]
              /\ web'.hit =>
                     /\ ~web'.searched
                     /\ web'.evicted = <<>>
                     /\ web'.cache = web.cache
                     /\ web'.obj = web.cache[web'.key[1]]
              /\ ~web'.hit =>
                     /\ web'.searched
                     /\ web'.key[1] \notin DOMAIN web.cache]_vars

\* the query 'a' was answered from the cache with the result stored for 'A',
\* after keys asked for before had been let go
C39_Witness ==
    /\ web.hit
    /\ web.key = Some(<<<<CHA>>, None>>)
    /\ web.obj.query = <<65>>
    /\ Cardinality(DOMAIN web.cache) < web.asked
    /\ web.mru[1] # CacheKey(FreshQuery(1), FreshYear(1))

\* ---------------------------------------------------------------------
\* chunk claims
\* ---------------------------------------------------------------------

\* the offset of the chunk seek() selects for a target: the last one at or
\* before it
SelectedPos(chunks, target) ==
    IF \E i \in 1..Len(chunks) : chunks[i].pos <= target
    THEN chunks[CHOOSE i \in 1..Len(chunks) :
                   /\ chunks[i].pos <= target
                   /\ \A j \in 1..Len(chunks) :
                          chunks[j].pos <= target => j <= i].pos
    ELSE 0
\* the last call was a seek to an offset within the stream
SoughtWithin ==
    /\ st = "reading"
    /\ lastop.op = "seek"
    /\ lastop.n \in {0, 1}
    /\ base >= 0
    /\ base <= Len(written)

\* C34: every chunk a writer emitted holds at least one byte and at most
\* chunksize bytes, and a seek to an offset within the stream through a
\* reader of the same chunk size raises nothing, lands on the offset and
\* skips at most chunksize bytes of the chunk it selected
C34_ChunkSizeBound ==
    /\ \A i \in 1..Len(zip) :
           Len(zip[i].data) >= 1 /\ Len(zip[i].data) <= fh.chunksize
    /\ SoughtWithin =>
           /\ lastop.exc = ""
           /\ fh.pos = base
           /\ base - SelectedPos(fh.chunks, base) <= fh.chunksize

\* a buffer of three bytes was cut into a chunk of two and a chunk of one,
\* and the reader skipped the two bytes of the first chunk
C34_Witness ==
    /\ SoughtWithin
    /\ Len(zip) = 2
    /\ Len(zip[1].data) = 2
    /\ Len(zip[2].data) = 1
    /\ fh.chunksize = 2
    /\ base = 2
    /\ fh.chunkidx = 0

\* the reader was positioned by seek() below the end of the stream, every
\* chunk fitting its chunk size, and only next() was called since
IteratedAfterSeek ==
    /\ st = "reading"
    /\ seeked
    /\ base >= 0
    /\ base < Len(written)
    /\ hist \in {"none", "next"}
    /\ \A i \in 1..Len(fh.chunks) : ChunkLen(fh.chunks[i]) <= fh.chunksize
\* a is the beginning of b
StartsWith(b, a) ==
    /\ Len(a) <= Len(b)
    /\ a = SubSeq(b, 1, Len(a))

\* C35: after seek(off) below the end of the stream, whatever was read
\* before, next() yields the lines of the stream from off on, in order, and
\* stops only after the last of them
C35_SeekThenLines ==
    IteratedAfterSeek =>
        /\ StartsWith(CutAfterNL(Drop(written, base), <<>>), lines)
        /\ ended => lines = CutAfterNL(Drop(written, base), <<>>)

\* the reader is where open or a seek() into the stream put it and read(n)
\* and next() calls were made since, in any order
ReadSince ==
    /\ st = "reading"
    /\ base >= 0
    /\ base <= Len(written)
    /\ hist # "none"

\* C36: for any interleaving of read(n) and next() calls on a reader, the
\* bytes returned, in the order returned, are the beginning of the stream
\* from the starting offset, and tell() is the offset of the byte after them
C36_MixedInOrder ==
    ReadSince =>
        /\ StartsWith(Drop(written, base), out)
        /\ Tell(fh) = base + Len(out)

\* the offset pos of the byte string s is the first byte of a line, or the
\* end of s after a complete line
LineStart(s, pos) ==
    \/ pos = 0
    \/ pos \in 1..Len(s) /\ s[pos] = NL
\* rebuild_index wrote the list sub-stream with autoflush off and a
\* bookmark(title) after each record line: the parser has no index
BookmarkArchived ==
    Archived /\ ParserOf(built.parser).indexname = None
\* the chunks of the archived list that carry a bookmark
TaggedChunks ==
    SelectSeq(Chunks(zip, ParserOf(built.parser).listname),
              LAMBDA c : c.bookmark # None)

\* C37: in a list sub-stream written by rebuild_index without an index,
\* every chunk that carries a bookmark begins at the first byte of a line,
\* and every start and end offset the bookmark planner emits for a lookup
\* is the first byte of a line
C37_PlannedLineStarts ==
    BookmarkArchived =>
        /\ \A i \in 1..Len(TaggedChunks) :
              LineStart(StreamOf(zip, ParserOf(built.parser).listname),
                        TaggedChunks[i].pos)
        /\ (AfterLookup /\ PlannedRanges.exc = "") =>
              \A i \in 1..Len(PlannedRanges.locs) :
                  /\ LineStart(StreamOf(zip, ParserOf(built.parser).listname),
                               PlannedRanges.locs[i].start[1])
                  /\ PlannedRanges.locs[i].end # None =>
                         LineStart(StreamOf(zip, ParserOf(built.parser).listname),
                                   PlannedRanges.locs[i].end[1])

\* the line l of a list as _parse_line gets it
AkaText(l) ==
    Latin1Decode(RStrip(l))
\* l is the line of an alternate name, a blank line, the line of a title
IsAkaLine(l) ==
    Take(AkaText(l), Len(AkaPrefix)) = AkaPrefix
IsBlankLine(l) ==
    AkaText(l) = <<>>
IsTitleLine(l) ==
    ~IsBlankLine(l) /\ ~IsAkaLine(l) /\ AkaText(l)[1] # SPACE
\* line j of ls is the title line of the block of line i: the title line
\* before it with nothing but alternate names between the two
TitleOfBlock(ls, i, j) ==
    /\ j \in 1..(i - 1)
    /\ IsTitleLine(ls[j])
    /\ \A k \in (j + 1)..(i - 1) : IsAkaLine(ls[k])
\* every alternate name of ls follows a title line inside its block
AkasFollowTitles(ls) ==
    \A i \in 1..Len(ls) :
        IsAkaLine(ls[i]) => \E j \in 1..Len(ls) : TitleOfBlock(ls, i, j)
\* the alternate names of ls that skip_tvvg does not drop, by line number
KeptAkas(ls) ==
    SelectSeq([i \in 1..Len(ls) |-> i],
              LAMBDA i : IsAkaLine(ls[i]) /\ ~IsTvvg(ls[i]))
\* the title line of the block of line i
OwnTitle(ls, i) ==
    AkaText(ls[CHOOSE j \in 1..Len(ls) : TitleOfBlock(ls, i, j)])
\* an aka-titles list in which every alternate name follows a title line
\* inside its block was scanned
AkaScanned ==
    lastop.op = "akascan" /\ AkasFollowTitles(src)

\* C38: a scan of an aka-titles list in which every alternate name follows
\* a title line inside its block raises no exception, and yields one
\* record for each alternate name skip_tvvg does not drop, in order, keyed
\* by the title line of the block of that alternate name
C38_AkaAttribution ==
    AkaScanned =>
        /\ res.exc = ""
        /\ Len(res.out) = Len(KeptAkas(src))
        /\ \A k \in 1..Len(res.out) :
              res.out[k].title = OwnTitle(src, KeptAkas(src)[k])

\* C40: in a point lookup over an archived list, the lines of the records
\* yielded lie at increasing offsets of the sub-stream, so no record is
\* yielded twice and no line is read again for a later range; a range that
\* starts before the position of the reader is one the planner emitted and
\* is passed over
C40_NoDuplicates ==
    AfterLookup =>
        /\ \A i \in 1..Len(res.at) : \A j \in (i + 1)..Len(res.at) :
              res.at[i] < res.at[j]
        /\ Len(res.at) = Len(res.out)
        /\ \A k \in 1..Len(res.skipped) :
              \E i \in 1..Len(PlannedRanges.locs) :
                  PlannedRanges.locs[i].start = Some(res.skipped[k])
\* a lookup yielded two records from the first range and passed over a
\* later range, which starts before the end of the second record
C40_Witness ==
    /\ AfterLookup
    /\ res.exc = ""
    /\ Len(res.at) >= 2
    /\ res.skipped # <<>>
    /\ res.skipped[1] <= res.at[Len(res.at)]

====
